---- MODULE Spec2Model ----
(***************************************************************************)
(* Model of the agent-loop package of codex-mcps-demo:                     *)
(*   scripts/agent-loop/src/agentLoop.ts      (AgentLoop.run, reset)       *)
(*   scripts/agent-loop/src/toolManager.ts    (executeTool, executeTools)  *)
(*   scripts/agent-loop/src/memory/...        (MemoryManager, TokenCounter,*)
(*                                             SlidingWindowStrategy)      *)
(*   scripts/agent-loop/src/promptManager.ts  (createPrompt)               *)
(*                                                                         *)
(* A text is a sequence of words (strings); its length in characters is    *)
(* the length of the words joined by single spaces.  Structured tool       *)
(* parameters and tool results are represented by their JSON text.         *)
(***************************************************************************)
EXTENDS Integers, Sequences, FiniteSets, TLC

(***************************************************************************)
(* Bounds of the model.                                                    *)
(***************************************************************************)
\* model calls (turns) over the life of one instance
MaxTurns == 4
\* calls the host makes on one instance: run() calls accepted and reset() calls
MaxHostCalls == 2
\* largest retries argument tried on executeTool / executeTools
MaxRetries == 2
\* messages in the store of a MemoryManager under direct calls
MaxStore == 5
\* pieces into which the argument text of a streamed tool call is cut
MaxFragments == 3
\* entries in the log of a Logger under direct calls
MaxLogs == 3
\* reset() calls made by the host
MaxResets == 1
\* messages in the history handed to createPrompt by a direct caller
MaxHistory == 3
\* tool calls one model turn completes, when the stream chooses them freely
MaxTurnCalls == 2

(***************************************************************************)
(* Program constants.                                                      *)
(***************************************************************************)
MAX_TURNS_WITHOUT_TOOLS == 3
AVG_CHARS_PER_TOKEN == 4
DefaultRetries == 3
DefaultMaxTokens == 4000
SafetyBuffer == 100
maxContextSize == 4000
MinLongAnswer == 100
MessageBaseTokens == 4
ArrayBaseTokens == 3
StructureTokens == 3

(***************************************************************************)
(* Values.                                                                 *)
(***************************************************************************)
\* JavaScript's undefined (a tool that returns nothing; JSON.stringify gives
\* undefined for it, which has no length)
UNDEFINED == "undefined"
NoError == "none"

RECURSIVE SumSeq(_)
SumSeq(s) == IF s = <<>> THEN 0 ELSE Head(s) + SumSeq(Tail(s))

Max(a, b) == IF a >= b THEN a ELSE b

\* Math.ceil(n / d) for n >= 0, d > 0
Ceil(n, d) == (n + d - 1) \div d

(***************************************************************************)
(* Texts.                                                                  *)
(***************************************************************************)
\* a 101-character word without a question mark
Filler == "xxxxxxxxxxxxxxxxxxxxxxxxxxxxxxxxxxxxxxxxxxxxxxxxxxxxxxxxxxxxxxxxxxxxxxxxxxxxxxxxxxxxxxxxxxxxxxxxxxxxx"

\* String.prototype.toLowerCase on the words of the vocabulary
ToLowerWord(w) ==
  CASE w = "The" -> "the"
    [] w = "Answer" -> "answer"
    [] w = "Hm?" -> "hm?"
    [] OTHER -> w

toLowerCase(t) == [i \in 1..Len(t) |-> ToLowerWord(t[i])]

\* the words of the vocabulary that hold the character '?'
HasQuestionMark(w) == w \in {"Hm?", "hm?"}

\* content.length: the words joined by single spaces
RECURSIVE TextLen(_)
TextLen(t) ==
  IF t = <<>> THEN 0
  ELSE IF Len(t) = 1 THEN Len(t[1])
  ELSE Len(Head(t)) + 1 + TextLen(Tail(t))

\* String.prototype.includes for a phrase of whole words
includes(t, phrase) ==
  \E i \in 0..(Len(t) - Len(phrase)) :
    \A j \in 1..Len(phrase) : t[i + j] = phrase[j]

finalAnswerIndicators ==
  { <<"in", "conclusion">>, <<"to", "summarize">>,
    <<"final", "answer">>, <<"the", "answer", "is">> }

isLikelyFinalAnswer(content) ==
  LET contentLower == toLowerCase(content) IN
    \/ \E indicator \in finalAnswerIndicators : includes(contentLower, indicator)
    \/ /\ TextLen(content) > MinLongAnswer
       /\ ~ \E i \in 1..Len(contentLower) : HasQuestionMark(contentLower[i])

\* texts: a short question, a text with an indicator phrase, a long text with
\* and without a question mark, a text of some hundred characters
T_ask == <<"Hm?">>
T_final == <<"The", "Answer", "is", "4">>
T_long == <<Filler>>
T_longq == <<Filler, "Hm?">>
T_huge == <<Filler, Filler, Filler, Filler>>
\* a text longer than the context limit of the PromptManager
T_giant == T_huge \o T_huge \o T_huge \o T_huge \o T_huge
           \o T_huge \o T_huge \o T_huge \o T_huge \o T_huge
\* the texts a model turn of a run may produce
ModelTexts == {T_ask, T_final}

(***************************************************************************)
(* Messages, tool calls and tool results (types.ts).                       *)
(***************************************************************************)
\* Message; an absent toolCalls / toolResults field is the empty sequence
Message(role, content, toolCalls, toolResults) ==
  [role |-> role, content |-> content,
   toolCalls |-> toolCalls, toolResults |-> toolResults]

ToolCall(id, name, params) == [id |-> id, name |-> name, params |-> params]

ToolResult(toolCall, result, error) ==
  [toolCall |-> toolCall, result |-> result, error |-> error]

\* the two error messages of executeTool
ToolNotFound == "Tool not found"
FailedToExecute == "Failed to execute tool"

\* JSON text of the results a tool may give
R_null == "null"
R_four == "4"

(***************************************************************************)
(* TokenCounter (memory/utils/tokenCounter.ts).                            *)
(***************************************************************************)
\* variant of TokenCountThrows: the count also fails on a null result
TokenCountThrowsOnNull(messages) ==
  \E i \in 1..Len(messages) :
    \E j \in 1..Len(messages[i].toolResults) :
      messages[i].toolResults[j].result \in {UNDEFINED, R_null}

\* JSON.stringify(toolResult.result).length raises a TypeError for undefined
TokenCountThrows(messages) ==
  \E i \in 1..Len(messages) :
    \E j \in 1..Len(messages[i].toolResults) :
      messages[i].toolResults[j].result = UNDEFINED

estimateMessageTokens(message) ==
  LET calls == message.toolCalls
      results == message.toolResults
      callTokens ==
        [i \in 1..Len(calls) |->
          Ceil(Len(calls[i].name) + Len(calls[i].params), AVG_CHARS_PER_TOKEN)]
      resultTokens ==
        [i \in 1..Len(results) |->
          Ceil(Len(results[i].result), AVG_CHARS_PER_TOKEN)]
  IN MessageBaseTokens
     + Ceil(TextLen(message.content), AVG_CHARS_PER_TOKEN)
     + (IF Len(calls) > 0
          THEN Len(calls) * StructureTokens + SumSeq(callTokens) ELSE 0)
     + (IF Len(results) > 0
          THEN Len(results) * StructureTokens + SumSeq(resultTokens) ELSE 0)

estimateMessagesTokens(messages) ==
  ArrayBaseTokens
  + SumSeq([i \in 1..Len(messages) |-> estimateMessageTokens(messages[i])])

(***************************************************************************)
(* SlidingWindowStrategy (memory/strategies/slidingWindow.ts).             *)
(***************************************************************************)
\* variant of WindowLoop: the test is against the budget without the buffer
RECURSIVE WindowLoopNoBuffer(_, _, _, _, _)
WindowLoopNoBuffer(nonSystemMessages, i, result, currentTokens, maxTokens) ==
  IF i < 1 THEN result
  ELSE LET message == nonSystemMessages[i]
           messageTokens == estimateMessageTokens(message)
       IN IF currentTokens + messageTokens > maxTokens
            THEN result
            ELSE WindowLoopNoBuffer(nonSystemMessages, i - 1,
                                    <<message>> \o result,
                                    currentTokens + messageTokens, maxTokens)

\* variant of WindowLoop: a message that takes the total to exactly the
\* budget less the buffer is not kept
RECURSIVE WindowLoopStrict(_, _, _, _, _)
WindowLoopStrict(nonSystemMessages, i, result, currentTokens, maxTokens) ==
  IF i < 1 THEN result
  ELSE LET message == nonSystemMessages[i]
           messageTokens == estimateMessageTokens(message)
       IN IF currentTokens + messageTokens >= maxTokens - SafetyBuffer
            THEN result
            ELSE WindowLoopStrict(nonSystemMessages, i - 1,
                                  <<message>> \o result,
                                  currentTokens + messageTokens, maxTokens)

\* variant of WindowLoop: a message that does not fit is skipped and the walk
\* goes on to the older ones
RECURSIVE WindowLoopSkip(_, _, _, _, _)
WindowLoopSkip(nonSystemMessages, i, result, currentTokens, maxTokens) ==
  IF i < 1 THEN result
  ELSE LET message == nonSystemMessages[i]
           messageTokens == estimateMessageTokens(message)
       IN IF currentTokens + messageTokens > maxTokens - SafetyBuffer
            THEN WindowLoopSkip(nonSystemMessages, i - 1, result,
                                currentTokens, maxTokens)
            ELSE WindowLoopSkip(nonSystemMessages, i - 1,
                                <<message>> \o result,
                                currentTokens + messageTokens, maxTokens)

\* the loop of apply: from the newest non-system message to the oldest, each
\* kept one is put in front of the result; the first that does not fit ends it
RECURSIVE WindowLoop(_, _, _, _, _)
WindowLoop(nonSystemMessages, i, result, currentTokens, maxTokens) ==
  IF i < 1 THEN result
  ELSE LET message == nonSystemMessages[i]
           messageTokens == estimateMessageTokens(message)
       IN IF currentTokens + messageTokens > maxTokens - SafetyBuffer
            THEN result
            ELSE WindowLoop(nonSystemMessages, i - 1, <<message>> \o result,
                            currentTokens + messageTokens, maxTokens)

\* variant of SlidingWindowApply: system messages are treated as the others
SlidingWindowApplyNoPin(messages, maxTokens) ==
  IF Len(messages) = 0 THEN <<>>
  ELSE IF estimateMessagesTokens(messages) <= maxTokens THEN messages
  ELSE WindowLoop(messages, Len(messages), <<>>,
                  estimateMessagesTokens(<<>>), maxTokens)

\* variant of SlidingWindowApply: the tokens of the system messages are not
\* counted against the budget
SlidingWindowApplyFreeSystem(messages, maxTokens) ==
  IF Len(messages) = 0 THEN <<>>
  ELSE IF estimateMessagesTokens(messages) <= maxTokens THEN messages
  ELSE LET systemMessages == SelectSeq(messages, LAMBDA m : m.role = "system")
           nonSystemMessages == SelectSeq(messages, LAMBDA m : m.role # "system")
       IN WindowLoop(nonSystemMessages, Len(nonSystemMessages), systemMessages,
                     estimateMessagesTokens(<<>>), maxTokens)

\* SlidingWindowStrategy.apply, for messages whose token count can be taken
SlidingWindowApply(messages, maxTokens) ==
  IF Len(messages) = 0 THEN <<>>
  ELSE IF estimateMessagesTokens(messages) <= maxTokens THEN messages
  ELSE LET systemMessages == SelectSeq(messages, LAMBDA m : m.role = "system")
           nonSystemMessages == SelectSeq(messages, LAMBDA m : m.role # "system")
       IN WindowLoop(nonSystemMessages, Len(nonSystemMessages), systemMessages,
                     estimateMessagesTokens(systemMessages), maxTokens)

(***************************************************************************)
(* PromptManager (promptManager.ts).                                       *)
(***************************************************************************)
\* JSON.stringify of a ToolCall {id, name, params}
CallJsonLen(c) ==
  Len("{\"id\":\"") + Len(c.id) + Len("\",\"name\":\"") + Len(c.name)
  + Len("\",\"params\":") + Len(c.params) + Len("}")

\* JSON.stringify of a ToolExecutionError: its enumerable fields are toolCall,
\* cause (the last failure, which carries attemptNumber and retriesLeft) and name
ErrorJsonLen(r) ==
  Len("{\"toolCall\":") + CallJsonLen(r.toolCall)
  + (IF r.error = FailedToExecute
       THEN Len(",\"cause\":{\"attemptNumber\":1,\"retriesLeft\":0}") ELSE 0)
  + Len(",\"name\":\"ToolExecutionError\"}")

\* JSON.stringify of a ToolResult; an undefined result is left out
ResultJsonLen(r) ==
  Len("{\"toolCall\":") + CallJsonLen(r.toolCall)
  + (IF r.result = UNDEFINED THEN 0 ELSE Len(",\"result\":") + Len(r.result))
  + (IF r.error = NoError THEN 0 ELSE Len(",\"error\":") + ErrorJsonLen(r))
  + Len("}")

\* JSON.stringify of an array whose items have the given lengths
ArrayJsonLen(lens) ==
  Len("[") + SumSeq(lens) + Max(Len(lens) - 1, 0) + Len("]")

\* the size manageHistorySize gives a message
MessageSize(message) ==
  TextLen(message.content)
  + ArrayJsonLen([i \in 1..Len(message.toolCalls) |->
                    CallJsonLen(message.toolCalls[i])])
  + ArrayJsonLen([i \in 1..Len(message.toolResults) |->
                    ResultJsonLen(message.toolResults[i])])

\* variant of ManageLoop: the newest message is kept only within the limit
RECURSIVE ManageLoopWithinLimit(_, _, _, _)
ManageLoopWithinLimit(history, i, managedHistory, totalSize) ==
  IF i < 1 THEN managedHistory
  ELSE LET message == history[i]
           messageSize == MessageSize(message)
       IN IF totalSize + messageSize <= maxContextSize
            THEN ManageLoopWithinLimit(history, i - 1,
                                       <<message>> \o managedHistory,
                                       totalSize + messageSize)
            ELSE managedHistory

\* the loop of manageHistorySize: newest first, the newest is always kept
RECURSIVE ManageLoop(_, _, _, _)
ManageLoop(history, i, managedHistory, totalSize) ==
  IF i < 1 THEN managedHistory
  ELSE LET message == history[i]
           messageSize == MessageSize(message)
       IN IF totalSize + messageSize <= maxContextSize \/ Len(managedHistory) = 0
            THEN ManageLoop(history, i - 1, <<message>> \o managedHistory,
                            totalSize + messageSize)
            ELSE managedHistory

manageHistorySize(history) == ManageLoop(history, Len(history), <<>>, 0)

\* the synthesized instruction message (tool catalogue and call format)
SystemText == <<"You", "are", "a", "helpful", "AI", "assistant">>

createSystemMessage == Message("system", SystemText, <<>>, <<>>)

\* variant of createPrompt: the initial prompt is sent on every turn
createPromptWithInitial(initialPrompt, history) ==
  <<createSystemMessage, Message("user", initialPrompt, <<>>, <<>>)>>
  \o manageHistorySize(history)

createPrompt(initialPrompt, history) ==
  IF Len(history) = 0
    THEN <<createSystemMessage, Message("user", initialPrompt, <<>>, <<>>)>>
    ELSE <<createSystemMessage>> \o manageHistorySize(history)

(***************************************************************************)
(* State.                                                                  *)
(***************************************************************************)
VARIABLES
  isRunning,              \* AgentLoop.isRunning
  localMessages,          \* MemoryManager.localMessages
  maxTokens,              \* SlidingWindowStrategy.maxTokens
  pc,                     \* where the run in flight is suspended, or "idle"
  pendingAdditional,      \* additional messages of run not yet added
  turnsWithoutToolCalls,  \* local of run
  allToolCalls,           \* local of run: calls collected by the chunk callback
  stream,                 \* LLMClient.streamCompletion: fullContent, completedToolCalls
  prompt,                 \* the messages handed to the last streamCompletion call
  batch,                  \* ToolManager: the executeTool calls of the batch in flight
  parallel,               \* executeTools argument
  retries,                \* executeTool / executeTools argument
  outcome,                \* how the last run() call ended
  raised,                 \* the error the last step raised to its caller at once
  runCalls,               \* number of run() calls accepted
  llmCalls,               \* number of streamCompletion calls made
  resets,                 \* number of reset() calls made
  turnLog,                \* per model turn of the run in flight or last ended,
                          \* the number of tool calls and the text it gave
  tpc,                    \* a direct caller of the ToolManager: "idle" / "exec"
  toolReturn,             \* what the last direct ToolManager call returned
  settled,                \* indices of the batch in the order in which their
                          \* executeTool calls returned
  toolCallsArg,           \* the tool calls handed to the last direct call
  memReturn,              \* the last direct call of the MemoryManager: its
                          \* operation and what it returned
  events,                 \* the chunks of the provider stream that a direct
                          \* call of streamCompletion iterates over
  consumed,               \* the number of them the for await loop has taken
  pendingToolCalls,       \* local of streamCompletion, in insertion order
  chunks,                 \* the StreamingChunks handed to onChunk so far
  streamReturn,           \* what the direct call of streamCompletion returned
  logs,                   \* Logger.logs: the entries recorded, without their
                          \* timestamp and data
  isEnabled,              \* Logger.isEnabled
  logLevel,               \* Logger.logLevel
  logCall,                \* the last direct call of the Logger and what it
                          \* returned
  historyArg,             \* the history argument of a direct call of
                          \* createPrompt
  mem0Client,             \* MemoryManager.mem0Client is set (not null)
  forwarding,             \* the mem0Client.add calls awaited, in call order
  mem0Messages            \* the messages the external store has accepted

runVars == <<isRunning, localMessages, maxTokens, pc, pendingAdditional,
             turnsWithoutToolCalls, allToolCalls, stream, prompt, outcome,
             runCalls, llmCalls, resets, turnLog>>
loopVars == <<runVars, raised>>
execVars == <<batch, parallel, retries, settled>>
clientVars == <<events, consumed, pendingToolCalls, chunks, streamReturn>>
loggerVars == <<isEnabled, logLevel>>
mem0Vars == <<mem0Client, forwarding, mem0Messages>>
sinkVars == <<logs, loggerVars, logCall, mem0Vars>>
testVars == <<tpc, toolReturn, toolCallsArg, memReturn, clientVars, sinkVars,
              historyArg>>
vars == <<loopVars, execVars, testVars>>

(***************************************************************************)
(* Configuration and inputs.                                               *)
(***************************************************************************)
initialPrompt == <<"Calculate", "2+2">>

\* the additionalMessages arguments tried on run
A_first == <<"And", "3+3">>
A_second == <<"Then", "stop">>
AdditionalChoices == { <<>>, <<A_first, A_second>> }

\* the registry: ToolManager.tools
RegisteredTools == {"calculator"}

\* the tool calls a model turn may produce
CallA == ToolCall("call_1", "calculator", "{\"expression\":\"2+2\"}")
CallB == ToolCall("call_2", "nonexistent", "{}")
\* a second call of the registered tool, for direct calls of the ToolManager
CallC == ToolCall("call_3", "calculator", "{\"expression\":\"3+3\"}")

NoOutcome == [kind |-> "none"]
NoStream == [fullContent |-> <<>>, completedToolCalls |-> <<>>]

(***************************************************************************)
(* Logger (src/unnamed/part_017).                                          *)
(***************************************************************************)
LogLevels == {"debug", "info", "warn", "error"}

levelPriority(level) ==
  CASE level = "debug" -> 0
    [] level = "info" -> 1
    [] level = "warn" -> 2
    [] level = "error" -> 3

\* a LogEntry without its timestamp and data
LogEntry(level, component, message) ==
  [level |-> level, component |-> component, message |-> message]

\* variant of Recorded: a call at the configured level is dropped
RecordedAbove(level) ==
  isEnabled /\ levelPriority(level) > levelPriority(logLevel)

\* the test of Logger.log: the call is recorded
Recorded(level) ==
  isEnabled /\ levelPriority(level) >= levelPriority(logLevel)

\* Logger.log: the log after the call
Log(entries, level, component, message) ==
  IF Recorded(level) THEN Append(entries, LogEntry(level, component, message))
  ELSE entries

(***************************************************************************)
(* ToolManager (toolManager.ts).                                           *)
(***************************************************************************)
\* one executeTool call: its tool call, where it stands, the number of times
\* tool.execute was invoked for it, the number of those invocations that
\* failed, and the ToolResult fields once "done"
ExecEntry(call, status, attempts, failures, result, error) ==
  [call |-> call, status |-> status, attempts |-> attempts,
   failures |-> failures, result |-> result, error |-> error]

\* an executeTool call not yet made (sequential mode)
Queued(call) == ExecEntry(call, "queued", 0, 0, R_null, NoError)

\* variant of executeToolStart: no lookup, every call is invoked
executeToolStartNoLookup(call) ==
  ExecEntry(call, "running", 1, 0, R_null, NoError)

\* executeTool up to its first suspension: an unknown name returns at once,
\* a known tool is invoked for the first time
executeToolStart(call) ==
  IF call.name \notin RegisteredTools
    THEN ExecEntry(call, "done", 0, 0, R_null, ToolNotFound)
    ELSE ExecEntry(call, "running", 1, 0, R_null, NoError)

\* the for loop of sequential executeTools: call i is made when call i - 1 has
\* returned
RECURSIVE StartFrom(_, _)
StartFrom(entries, i) ==
  IF i > Len(entries) THEN entries
  ELSE LET started == [entries EXCEPT ![i] = executeToolStart(entries[i].call)]
       IN IF started[i].status = "done" THEN StartFrom(started, i + 1)
          ELSE started

\* variant of Dispatch: every call is made at once in both modes
DispatchAllAtOnce(toolCalls, par) ==
  [i \in 1..Len(toolCalls) |-> executeToolStart(toolCalls[i])]

\* executeTools up to its first suspension
Dispatch(toolCalls, par) ==
  IF par THEN [i \in 1..Len(toolCalls) |-> executeToolStart(toolCalls[i])]
  ELSE StartFrom([i \in 1..Len(toolCalls) |-> Queued(toolCalls[i])], 1)

\* variant of RetriesLeft: one attempt fewer
RetriesLeftShort(entry, r) == entry.attempts < r

\* p-retry: a failed attempt is retried while fewer than 1 + retries were made
RetriesLeft(entry, r) == entry.attempts < 1 + r

\* variant of executeToolSettle: the last failure is returned without an error
executeToolSettleSilent(entry, value, r) ==
  IF value # "fail"
    THEN [entry EXCEPT !.status = "done", !.result = value]
  ELSE IF RetriesLeft(entry, r)
    THEN [entry EXCEPT !.status = "backoff", !.failures = entry.failures + 1]
  ELSE [entry EXCEPT !.status = "done", !.failures = entry.failures + 1,
                     !.result = R_null]

\* executeTool when an invocation of the tool ends; value is "fail" or the
\* JSON text of the value the tool gave (UNDEFINED for no value)
executeToolSettle(entry, value, r) ==
  IF value # "fail"
    THEN [entry EXCEPT !.status = "done", !.result = value]
  ELSE IF RetriesLeft(entry, r)
    THEN [entry EXCEPT !.status = "backoff", !.failures = entry.failures + 1]
  ELSE [entry EXCEPT !.status = "done", !.failures = entry.failures + 1,
                     !.result = R_null, !.error = FailedToExecute]

\* variant of AfterEntry: in parallel mode a call that ends in an error ends
\* the calls still in flight with it
AfterEntryFailFast(entries, i, entry, par) ==
  LET next == [entries EXCEPT ![i] = entry]
  IN IF ~par /\ entry.status = "done" THEN StartFrom(next, i + 1)
     ELSE IF par /\ entry.error # NoError
       THEN [k \in 1..Len(next) |->
               IF next[k].status = "done" THEN next[k]
               ELSE [next[k] EXCEPT !.status = "done", !.result = R_null,
                                    !.error = FailedToExecute]]
     ELSE next

\* the batch after entry i took the given value
AfterEntry(entries, i, entry, par) ==
  LET next == [entries EXCEPT ![i] = entry]
  IN IF ~par /\ entry.status = "done" THEN StartFrom(next, i + 1) ELSE next

\* variant of AllDone: one call that has returned is enough
AnyDone(entries) == \E i \in 1..Len(entries) : entries[i].status = "done"

AllDone(entries) == \A i \in 1..Len(entries) : entries[i].status = "done"

\* variant of BatchResults: the results in the order in which the calls
\* returned
BatchResultsAsSettled(entries) ==
  [k \in 1..Len(settled) |->
     ToolResult(entries[settled[k]].call, entries[settled[k]].result,
                entries[settled[k]].error)]

\* the ToolResult array executeTools returns: input order
BatchResults(entries) ==
  [i \in 1..Len(entries) |->
     ToolResult(entries[i].call, entries[i].result, entries[i].error)]

ToolOutcomes == {"fail", R_four, UNDEFINED}

\* the order of return after a step: the executeTool calls that returned in
\* the step follow the ones that had returned before (within one step, by
\* index: they return in the order in which they were made)
RECURSIVE ResolvedFrom(_, _, _)
ResolvedFrom(order, entries, i) ==
  IF i > Len(entries) THEN order
  ELSE ResolvedFrom(
         IF entries[i].status = "done" /\ \A k \in 1..Len(order) : order[k] # i
           THEN Append(order, i) ELSE order,
         entries, i + 1)

Resolved(order, entries) == ResolvedFrom(order, entries, 1)

\* an invocation of tool.execute ends
ToolSettle(i, value) ==
  /\ i \in 1..Len(batch)
  /\ batch[i].status = "running"
  /\ batch' = AfterEntry(batch, i, executeToolSettle(batch[i], value, retries),
                         parallel)
  /\ settled' = Resolved(settled, batch')
  /\ raised' = NoError
  /\ UNCHANGED <<parallel, retries, runVars, testVars>>

\* p-retry's backoff timer fires: the tool is invoked again
ToolRetry(i) ==
  /\ i \in 1..Len(batch)
  /\ batch[i].status = "backoff"
  /\ batch' = [batch EXCEPT ![i].status = "running",
                            ![i].attempts = batch[i].attempts + 1]
  /\ raised' = NoError
  /\ UNCHANGED <<parallel, retries, settled, runVars, testVars>>

(***************************************************************************)
(* Direct calls of the ToolManager, by a caller other than the loop.       *)
(***************************************************************************)
NoReturn == [kind |-> "none"]

\* what a direct call returned: the ToolResult list, and for each call the
\* number of invocations of its tool and the number of those that failed
Returned(entries, r, order) ==
  [kind |-> "returned", retries |-> r, results |-> BatchResults(entries),
   order |-> order,
   invoked |-> [i \in 1..Len(entries) |-> entries[i].attempts],
   failed |-> [i \in 1..Len(entries) |-> entries[i].failures]]

\* the calls and the call lists tried
DirectCalls == {CallA, CallB}
DirectBatches == { <<>>, <<CallA, CallB>>, <<CallB, CallA>>, <<CallA, CallC>> }

\* executeTool(toolCall, r) is called
CallExecuteTool(toolCall, r) ==
  /\ tpc = "idle"
  /\ tpc' = "exec"
  /\ batch' = <<executeToolStart(toolCall)>>
  /\ settled' = Resolved(<<>>, batch')
  /\ parallel' = FALSE
  /\ retries' = r
  /\ toolReturn' = NoReturn
  /\ toolCallsArg' = <<toolCall>>
  /\ UNCHANGED <<memReturn, clientVars, sinkVars, historyArg, loopVars>>

\* executeTools(toolCalls, par, r) is called: an empty list returns at once
CallExecuteTools(toolCalls, par, r) ==
  /\ tpc = "idle"
  /\ parallel' = par
  /\ retries' = r
  /\ toolCallsArg' = toolCalls
  /\ IF Len(toolCalls) = 0
       THEN /\ toolReturn' = Returned(<<>>, r, <<>>)
            /\ UNCHANGED <<tpc, batch, settled>>
       ELSE /\ tpc' = "exec"
            /\ batch' = Dispatch(toolCalls, par)
            /\ settled' = Resolved(<<>>, batch')
            /\ toolReturn' = NoReturn
  /\ UNCHANGED <<memReturn, clientVars, sinkVars, historyArg, loopVars>>

\* the direct call returns: every executeTool call of it has returned
DirectReturn ==
  /\ tpc = "exec"
  /\ AllDone(batch)
  /\ toolReturn' = Returned(batch, retries, settled)
  /\ tpc' = "idle"
  /\ batch' = <<>>
  /\ settled' = <<>>
  /\ UNCHANGED <<parallel, retries, toolCallsArg, memReturn, clientVars,
                 sinkVars, historyArg, loopVars>>

(***************************************************************************)
(* MemoryManager (memory/memoryManager.ts).                                *)
(***************************************************************************)
\* variant of addUserMessage: the message is put in front of the store
addUserMessageAtFront(messages, content) ==
  <<Message("user", content, <<>>, <<>>)>> \o messages

addUserMessage(messages, content) ==
  Append(messages, Message("user", content, <<>>, <<>>))

addAssistantMessage(messages, content, toolCalls) ==
  Append(messages, Message("assistant", content, toolCalls, <<>>))

ToolResultsText == <<"Tool", "execution", "results">>

\* variant of addToolResults: the message is put in front of the store
addToolResultsAtFront(messages, toolResults) ==
  <<Message("system", ToolResultsText, <<>>, toolResults)>> \o messages

addToolResults(messages, toolResults) ==
  Append(messages, Message("system", ToolResultsText, <<>>, toolResults))

getCurrentTokenCount(messages) == estimateMessagesTokens(messages)

getMessagesForPrompt(messages) == SlidingWindowApply(messages, maxTokens)

(***************************************************************************)
(* AgentLoop.run (agentLoop.ts).                                           *)
(***************************************************************************)
Outcome(kind, finalAnswer, history, error) ==
  [kind |-> kind, finalAnswer |-> finalAnswer, history |-> history,
   error |-> error]

\* variant of ThrowFromRun: no finally block, the run stays marked
ThrowFromRunStillRunning(cause) ==
  /\ isRunning' = TRUE
  /\ pc' = "idle"
  /\ outcome' = Outcome("error", <<>>, <<>>, <<"AgentLoopError">> \o cause)
  /\ stream' = NoStream
  /\ allToolCalls' = <<>>
  /\ UNCHANGED <<prompt, llmCalls>>

\* catch + finally of run: the error is wrapped in an AgentLoopError; the
\* locals of the call (the stream, the collected calls) end with it
ThrowFromRun(cause) ==
  /\ isRunning' = FALSE
  /\ pc' = "idle"
  /\ outcome' = Outcome("error", <<>>, <<>>, <<"AgentLoopError">> \o cause)
  /\ stream' = NoStream
  /\ allToolCalls' = <<>>
  /\ UNCHANGED <<prompt, llmCalls>>

\* the error of a token count over a result without JSON text
TokenCountError == <<"TypeError">>

\* the head of the while loop: compose the prompt, call streamCompletion;
\* running is the value isRunning has when the loop is entered
EnterTurn(messages, running) ==
  IF TokenCountThrows(messages) THEN ThrowFromRun(TokenCountError)
  ELSE /\ llmCalls < MaxTurns
       /\ pc' = "llm"
       /\ llmCalls' = llmCalls + 1
       /\ prompt' = createPrompt(initialPrompt, getMessagesForPrompt(messages))
       /\ stream' = NoStream
       /\ allToolCalls' = <<>>
       /\ isRunning' = running
       /\ outcome' = NoOutcome

\* variant of ReturnFromRun: the answer is the value finalAnswer starts with
ReturnFromRunNoAnswer(messages, finalAnswer) ==
  IF TokenCountThrows(messages) THEN ThrowFromRun(TokenCountError)
  ELSE /\ isRunning' = FALSE
       /\ pc' = "idle"
       /\ outcome' = Outcome("answer", <<>>,
                             getMessagesForPrompt(messages), <<>>)
       /\ stream' = NoStream
       /\ allToolCalls' = <<>>
       /\ UNCHANGED <<prompt, llmCalls>>

\* the return of run: the history is the view of the store
ReturnFromRun(messages, finalAnswer) ==
  IF TokenCountThrows(messages) THEN ThrowFromRun(TokenCountError)
  ELSE /\ isRunning' = FALSE
       /\ pc' = "idle"
       /\ outcome' = Outcome("answer", finalAnswer,
                             getMessagesForPrompt(messages), <<>>)
       /\ stream' = NoStream
       /\ allToolCalls' = <<>>
       /\ UNCHANGED <<prompt, llmCalls>>

\* run after the additional messages: the initial prompt is added when the
\* token count of the store is 0
AfterAdditional(messages, running) ==
  IF TokenCountThrows(messages)
    THEN localMessages' = messages /\ ThrowFromRun(TokenCountError)
  ELSE IF getCurrentTokenCount(messages) = 0
    THEN /\ localMessages' = addUserMessage(messages, initialPrompt)
         /\ pc' = "seed"
         /\ isRunning' = running
         /\ outcome' = NoOutcome
         /\ UNCHANGED <<stream, prompt, llmCalls, allToolCalls>>
  ELSE localMessages' = messages /\ EnterTurn(messages, running)

\* variant of AlreadyRunning: the guard of run never holds
NeverRunning == FALSE

\* the re-entrancy test of run
AlreadyRunning == isRunning

AlreadyRunningError == "Agent loop is already running"

\* run() called while a run is in flight
RunRejected ==
  /\ AlreadyRunning
  /\ raised' = AlreadyRunningError
  /\ UNCHANGED <<isRunning, localMessages, maxTokens, pc, pendingAdditional,
                 turnsWithoutToolCalls, allToolCalls, stream, prompt, outcome,
                 runCalls, llmCalls, resets, turnLog, execVars, testVars>>

\* run(additionalMessages) up to its first suspension
RunAccepted(additionalMessages) ==
  /\ runCalls < MaxHostCalls
  /\ ~AlreadyRunning
  /\ runCalls' = runCalls + 1
  /\ raised' = NoError
  /\ turnLog' = <<>>
  /\ turnsWithoutToolCalls' = 0
  /\ IF Len(additionalMessages) > 0
       THEN /\ localMessages' = addUserMessage(localMessages,
                                               Head(additionalMessages))
            /\ pendingAdditional' = Tail(additionalMessages)
            /\ pc' = "addUser"
            /\ isRunning' = TRUE
            /\ outcome' = NoOutcome
            /\ UNCHANGED <<stream, prompt, llmCalls, allToolCalls>>
       ELSE /\ pendingAdditional' = <<>>
            /\ AfterAdditional(localMessages, TRUE)
  /\ UNCHANGED <<maxTokens, resets, execVars, testVars>>

\* run resumes after an await of addUserMessage
UserMessageAdded ==
  /\ pc \in {"addUser", "seed"}
  /\ IF pc = "seed"
       THEN /\ EnterTurn(localMessages, isRunning)
            /\ UNCHANGED <<localMessages, pendingAdditional>>
     ELSE IF Len(pendingAdditional) > 0
       THEN /\ localMessages' = addUserMessage(localMessages,
                                               Head(pendingAdditional))
            /\ pendingAdditional' = Tail(pendingAdditional)
            /\ UNCHANGED <<isRunning, pc, outcome, stream, prompt, llmCalls,
                           allToolCalls>>
     ELSE /\ AfterAdditional(localMessages, isRunning)
          /\ UNCHANGED pendingAdditional
  /\ raised' = NoError
  /\ UNCHANGED <<maxTokens, turnsWithoutToolCalls, runCalls, resets,
                 turnLog, execVars, testVars>>

\* Array.prototype.some over the collected calls: same id
SomeSameId(calls, toolCall) ==
  \E k \in 1..Len(calls) : calls[k].id = toolCall.id

\* the chunk callback of run: each call of the chunk not yet collected (by id)
\* is pushed
RECURSIVE CollectToolCalls(_, _)
CollectToolCalls(collected, chunkCalls) ==
  IF chunkCalls = <<>> THEN collected
  ELSE CollectToolCalls(
         IF SomeSameId(collected, Head(chunkCalls)) THEN collected
         ELSE Append(collected, Head(chunkCalls)),
         Tail(chunkCalls))

\* the calls a stream may complete, in the order it completes them
StreamCalls == <<CallA, CallB>>

\* the stream delivers a text delta: one chunk with that text
StreamText(text) ==
  /\ pc = "llm"
  /\ stream.fullContent = <<>>
  /\ stream.completedToolCalls = <<>>
  /\ stream' = [stream EXCEPT !.fullContent = stream.fullContent \o text]
  /\ allToolCalls' = CollectToolCalls(allToolCalls, stream.completedToolCalls)
  /\ raised' = NoError
  /\ UNCHANGED <<isRunning, localMessages, maxTokens, pc, pendingAdditional,
                 turnsWithoutToolCalls, prompt, outcome, runCalls,
                 llmCalls, resets, turnLog, execVars, testVars>>

\* the stream completes the tool call toolCall: one chunk that carries every
\* call completed so far.  The text of a turn with tool calls is the one that
\* passes the final-answer test: the case in which the calls decide.
StreamSurfaces(toolCall) ==
  /\ pc = "llm"
  /\ stream.fullContent = T_final
  /\ LET completed == Append(stream.completedToolCalls, toolCall)
     IN /\ stream' = [stream EXCEPT !.completedToolCalls = completed]
        /\ allToolCalls' = CollectToolCalls(allToolCalls, completed)
  /\ raised' = NoError
  /\ UNCHANGED <<isRunning, localMessages, maxTokens, pc, pendingAdditional,
                 turnsWithoutToolCalls, prompt, outcome, runCalls,
                 llmCalls, resets, turnLog, execVars, testVars>>

\* the stream completes the tool call StreamCalls[k]
StreamToolCall(k) ==
  /\ Len(stream.completedToolCalls) = k - 1
  /\ StreamSurfaces(StreamCalls[k])

\* the stream ends: the last chunk, streamCompletion returns the full text and
\* run saves the assistant message
StreamEnd ==
  /\ pc = "llm"
  /\ stream.fullContent # <<>>
  /\ LET collected ==
           CollectToolCalls(allToolCalls, stream.completedToolCalls)
     IN /\ allToolCalls' = collected
        /\ localMessages' =
             addAssistantMessage(localMessages, stream.fullContent, collected)
        /\ turnLog' = Append(turnLog, [toolCalls |-> Len(collected),
                                       content |-> stream.fullContent])
  /\ pc' = "addAssistant"
  /\ raised' = NoError
  /\ UNCHANGED <<isRunning, maxTokens, pendingAdditional,
                 turnsWithoutToolCalls, stream, prompt, outcome, runCalls, llmCalls, resets, execVars, testVars>>

\* variant of ProviderErrorCause: the failure is not wrapped by streamCompletion
RawProviderError == <<"APIError">>

\* what run raises when the model stream fails: streamCompletion wraps the
\* failure in an LLMProviderError, run wraps that in an AgentLoopError
ProviderErrorCause == <<"LLMProviderError", "APIError">>

\* the provider or the transport fails during streamCompletion
StreamFail ==
  /\ pc = "llm"
  /\ ThrowFromRun(ProviderErrorCause)
  /\ raised' = NoError
  /\ UNCHANGED <<localMessages, maxTokens, pendingAdditional,
                 turnsWithoutToolCalls, runCalls, resets, turnLog,
                 execVars, testVars>>

\* variant of TurnEndsRun: no cap on the turns without tool calls
TurnEndsRunNoCap(turns, content) == isLikelyFinalAnswer(content)

\* the cap and the final-answer test of a turn without tool calls
TurnEndsRun(turns, content) ==
  turns >= MAX_TURNS_WITHOUT_TOOLS \/ isLikelyFinalAnswer(content)

\* variant of CountTurn: a turn with tool calls leaves the counter alone
CountTurnNoReset(turns, toolCalls) ==
  IF Len(toolCalls) > 0 THEN turns ELSE turns + 1

\* the counter of turns without tool calls after a turn: back to 0 when the
\* turn gave a tool call, one more when it gave none
CountTurn(turns, toolCalls) ==
  IF Len(toolCalls) > 0 THEN 0 ELSE turns + 1

\* run resumes after the await of addAssistantMessage
AssistantMessageAdded ==
  /\ pc = "addAssistant"
  /\ turnsWithoutToolCalls' = CountTurn(turnsWithoutToolCalls, allToolCalls)
  /\ IF Len(allToolCalls) > 0
       THEN /\ batch' = Dispatch(allToolCalls, TRUE)
            /\ settled' = Resolved(<<>>, batch')
            /\ parallel' = TRUE
            /\ retries' = DefaultRetries
            /\ pc' = "tools"
            /\ UNCHANGED <<isRunning, outcome, stream, prompt, llmCalls,
                           allToolCalls>>
       ELSE /\ IF TurnEndsRun(turnsWithoutToolCalls', stream.fullContent)
                 THEN ReturnFromRun(localMessages, stream.fullContent)
                 ELSE EnterTurn(localMessages, isRunning)
            /\ UNCHANGED execVars
  /\ raised' = NoError
  /\ UNCHANGED <<localMessages, maxTokens, pendingAdditional, runCalls, resets,
                 turnLog, testVars>>

\* executeTools returns to run: every call of the batch has resolved; run
\* saves the results
ToolsReturned ==
  /\ pc = "tools"
  /\ AllDone(batch)
  /\ localMessages' = addToolResults(localMessages, BatchResults(batch))
  /\ pc' = "addResults"
  /\ batch' = <<>>
  /\ settled' = <<>>
  /\ raised' = NoError
  /\ UNCHANGED <<isRunning, maxTokens, pendingAdditional,
                 turnsWithoutToolCalls, allToolCalls, stream, prompt, outcome,
                 runCalls, llmCalls, resets, turnLog, parallel,
                 retries, testVars>>

\* run resumes after the await of addToolResults: the next turn
ToolResultsAdded ==
  /\ pc = "addResults"
  /\ EnterTurn(localMessages, isRunning)
  /\ raised' = NoError
  /\ UNCHANGED <<localMessages, maxTokens, pendingAdditional,
                 turnsWithoutToolCalls, runCalls, resets, turnLog,
                 execVars, testVars>>

\* variant of Reset: the log is not cleared
ResetKeepsLogs ==
  /\ resets < MaxResets
  /\ resets' = resets + 1
  /\ localMessages' = <<>>
  /\ logs' = Log(logs, "info", "AgentLoop", "State reset")
  /\ raised' = NoError
  /\ UNCHANGED <<isRunning, maxTokens, pc, pendingAdditional,
                 turnsWithoutToolCalls, allToolCalls, stream, prompt, outcome,
                 runCalls, llmCalls, turnLog, execVars, tpc, toolReturn,
                 toolCallsArg, memReturn, clientVars, loggerVars, logCall,
                 mem0Vars, historyArg>>

\* AgentLoop.reset: clearMemory empties the store (its warning about mem0 is
\* logged before the log is cleared), clearLogs empties the log, then the
\* info line is logged.  There is no test of isRunning.
Reset ==
  /\ resets < MaxResets
  /\ resets' = resets + 1
  /\ localMessages' = <<>>
  /\ logs' = Log(<<>>, "info", "AgentLoop", "State reset")
  /\ raised' = NoError
  /\ UNCHANGED <<isRunning, maxTokens, pc, pendingAdditional,
                 turnsWithoutToolCalls, allToolCalls, stream, prompt, outcome,
                 runCalls, llmCalls, turnLog, execVars, tpc, toolReturn,
                 toolCallsArg, memReturn, clientVars, loggerVars, logCall,
                 mem0Vars, historyArg>>

Init ==
  /\ isRunning = FALSE
  /\ localMessages = <<>>
  /\ maxTokens = DefaultMaxTokens
  /\ pc = "idle"
  /\ pendingAdditional = <<>>
  /\ turnsWithoutToolCalls = 0
  /\ allToolCalls = <<>>
  /\ stream = NoStream
  /\ prompt = <<>>
  /\ batch = <<>>
  /\ parallel = TRUE
  /\ retries = DefaultRetries
  /\ outcome = NoOutcome
  /\ raised = NoError
  /\ runCalls = 0
  /\ llmCalls = 0
  /\ resets = 0
  /\ turnLog = <<>>
  /\ tpc = "idle"
  /\ toolReturn = NoReturn
  /\ settled = <<>>
  /\ toolCallsArg = <<>>
  /\ memReturn = NoReturn
  /\ logs = <<>>
  /\ isEnabled = FALSE
  /\ logLevel = "info"
  /\ logCall = NoReturn
  /\ historyArg = <<>>
  /\ mem0Client = FALSE
  /\ forwarding = <<>>
  /\ mem0Messages = <<>>
  /\ events = <<>>
  /\ consumed = 0
  /\ pendingToolCalls = <<>>
  /\ chunks = <<>>
  /\ streamReturn = NoReturn

Next ==
  \/ RunRejected
  \/ \E additionalMessages \in AdditionalChoices : RunAccepted(additionalMessages)
  \/ UserMessageAdded
  \/ \E text \in ModelTexts : StreamText(text)
  \/ \E k \in 1..Len(StreamCalls) : StreamToolCall(k)
  \/ StreamEnd
  \/ StreamFail
  \/ AssistantMessageAdded
  \/ \E i \in 1..Len(batch) : \E value \in ToolOutcomes : ToolSettle(i, value)
  \/ \E i \in 1..Len(batch) : ToolRetry(i)
  \/ ToolsReturned
  \/ ToolResultsAdded

Spec == Init /\ [][Next]_vars

\* the ToolManager under direct calls
NextTools ==
  \/ \E toolCall \in DirectCalls, r \in 0..MaxRetries :
       CallExecuteTool(toolCall, r)
  \/ \E toolCalls \in DirectBatches, par \in BOOLEAN, r \in 0..MaxRetries :
       CallExecuteTools(toolCalls, par, r)
  \/ \E i \in 1..Len(batch), value \in ToolOutcomes : ToolSettle(i, value)
  \/ \E i \in 1..Len(batch) : ToolRetry(i)
  \/ DirectReturn

SpecTools == Init /\ [][NextTools]_vars

(***************************************************************************)
(* Direct calls of the MemoryManager, by a caller other than the loop.     *)
(***************************************************************************)
\* the token budgets (config.maxTokens) a MemoryManager is constructed with
BudgetChoices == {40, 120, 250}

\* what the direct calls append
MemUserTexts == {T_ask, T_huge}
MemAssistantChoices ==
  { [content |-> T_final, toolCalls |-> <<CallA>>],
    [content |-> T_huge, toolCalls |-> <<>>] }
MemResultChoices == { <<ToolResult(CallA, R_four, NoError)>> }

\* the variables a MemoryManager call leaves alone
nonMemoryVars ==
  <<isRunning, maxTokens, pc, pendingAdditional, turnsWithoutToolCalls,
    allToolCalls, stream, prompt, outcome, runCalls, llmCalls, resets,
    turnLog, raised, execVars, tpc, toolReturn, toolCallsArg, clientVars,
    sinkVars, historyArg>>

\* addUserMessage(content) is called
CallAddUserMessage(content) ==
  /\ Len(localMessages) < MaxStore
  /\ localMessages' = addUserMessage(localMessages, content)
  /\ memReturn' = [op |-> "addUserMessage", success |-> TRUE]
  /\ UNCHANGED nonMemoryVars

\* addAssistantMessage(content, toolCalls) is called
CallAddAssistantMessage(content, toolCalls) ==
  /\ Len(localMessages) < MaxStore
  /\ localMessages' = addAssistantMessage(localMessages, content, toolCalls)
  /\ memReturn' = [op |-> "addAssistantMessage", success |-> TRUE]
  /\ UNCHANGED nonMemoryVars

\* addToolResults(toolResults) is called
CallAddToolResults(toolResults) ==
  /\ Len(localMessages) < MaxStore
  /\ localMessages' = addToolResults(localMessages, toolResults)
  /\ memReturn' = [op |-> "addToolResults", success |-> TRUE]
  /\ UNCHANGED nonMemoryVars

\* getMessagesForPrompt() is called: the view, or the error of the token count
CallGetMessagesForPrompt ==
  /\ memReturn' =
       IF TokenCountThrows(localMessages)
         THEN [op |-> "getMessagesForPrompt", error |-> TokenCountError]
         ELSE [op |-> "getMessagesForPrompt", error |-> <<>>,
               view |-> getMessagesForPrompt(localMessages)]
  /\ UNCHANGED <<localMessages, nonMemoryVars>>

\* clearMemory() is called
CallClearMemory ==
  /\ localMessages' = <<>>
  /\ memReturn' = [op |-> "clearMemory", success |-> TRUE]
  /\ UNCHANGED nonMemoryVars

\* the data tried on importMemory: not in the exported format, or an export
\* of a store of one user message
InvalidData == [messages |-> "none"]
ImportChoices == { InvalidData, [messages |-> <<Message("user", T_ask, <<>>, <<>>)>>] }

\* importMemory(data) is called: data in the exported format replaces the store
CallImportMemory(data) ==
  /\ IF data.messages # "none"
       THEN /\ localMessages' = data.messages
            /\ memReturn' = [op |-> "importMemory", success |-> TRUE]
       ELSE /\ localMessages' = localMessages
            /\ memReturn' = [op |-> "importMemory", success |-> FALSE]
  /\ UNCHANGED nonMemoryVars

\* a MemoryManager constructed with one of the budgets
InitMemory ==
  /\ maxTokens \in BudgetChoices
  /\ isRunning = FALSE
  /\ localMessages = <<>>
  /\ pc = "idle"
  /\ pendingAdditional = <<>>
  /\ turnsWithoutToolCalls = 0
  /\ allToolCalls = <<>>
  /\ stream = NoStream
  /\ prompt = <<>>
  /\ batch = <<>>
  /\ parallel = TRUE
  /\ retries = DefaultRetries
  /\ outcome = NoOutcome
  /\ raised = NoError
  /\ runCalls = 0
  /\ llmCalls = 0
  /\ resets = 0
  /\ turnLog = <<>>
  /\ tpc = "idle"
  /\ toolReturn = NoReturn
  /\ settled = <<>>
  /\ toolCallsArg = <<>>
  /\ memReturn = NoReturn
  /\ logs = <<>>
  /\ isEnabled = FALSE
  /\ logLevel = "info"
  /\ logCall = NoReturn
  /\ historyArg = <<>>
  /\ mem0Client = FALSE
  /\ forwarding = <<>>
  /\ mem0Messages = <<>>
  /\ events = <<>>
  /\ consumed = 0
  /\ pendingToolCalls = <<>>
  /\ chunks = <<>>
  /\ streamReturn = NoReturn

NextMemory ==
  \/ \E content \in MemUserTexts : CallAddUserMessage(content)
  \/ \E choice \in MemAssistantChoices :
       CallAddAssistantMessage(choice.content, choice.toolCalls)
  \/ \E toolResults \in MemResultChoices : CallAddToolResults(toolResults)
  \/ CallGetMessagesForPrompt
  \/ CallClearMemory
  \/ \E data \in ImportChoices : CallImportMemory(data)

SpecMemory == InitMemory /\ [][NextMemory]_vars

(***************************************************************************)
(* JSON texts, as LLMClient reads them (JSON.parse, llmClient.ts 325-332). *)
(* A text is the sequence of its characters.  The grammar is JSON's for    *)
(* objects, strings and numbers over the characters below.                 *)
(***************************************************************************)
Whitespace == {" ", "\n"}
Digits == {"1", "2"}
Quote == "\""

\* the first position from i on that holds no whitespace
RECURSIVE SkipWs(_, _)
SkipWs(t, i) ==
  IF i <= Len(t) /\ t[i] \in Whitespace THEN SkipWs(t, i + 1) ELSE i

\* the position after the string whose characters start at i (the opening
\* quote is at i - 1), or 0: a string ends at the next quote and holds no
\* line break
RECURSIVE ScanString(_, _)
ScanString(t, i) ==
  IF i > Len(t) THEN 0
  ELSE IF t[i] = Quote THEN i + 1
  ELSE IF t[i] = "\n" THEN 0
  ELSE ScanString(t, i + 1)

ParseString(t, i) ==
  IF i <= Len(t) /\ t[i] = Quote THEN ScanString(t, i + 1) ELSE 0

\* the position after the digits that start at i
RECURSIVE ScanDigits(_, _)
ScanDigits(t, i) ==
  IF i <= Len(t) /\ t[i] \in Digits THEN ScanDigits(t, i + 1) ELSE i

\* the position after the value / the members of an object that start at i,
\* or 0 if there is none
RECURSIVE ParseValue(_, _)
RECURSIVE ParseMembers(_, _)
ParseValue(t, i) ==
  IF i > Len(t) THEN 0
  ELSE IF t[i] = Quote THEN ParseString(t, i)
  ELSE IF t[i] \in Digits THEN ScanDigits(t, i)
  ELSE IF t[i] = "{"
    THEN LET j == SkipWs(t, i + 1)
         IN IF j <= Len(t) /\ t[j] = "}" THEN j + 1 ELSE ParseMembers(t, j)
  ELSE 0

ParseMembers(t, i) ==
  LET afterKey == ParseString(t, i)
      colon == SkipWs(t, afterKey)
  IN IF afterKey = 0 \/ colon > Len(t) \/ t[colon] # ":" THEN 0
     ELSE LET afterValue == ParseValue(t, SkipWs(t, colon + 1))
              next == SkipWs(t, afterValue)
          IN IF afterValue = 0 \/ next > Len(t) THEN 0
             ELSE IF t[next] = "}" THEN next + 1
             ELSE IF t[next] = "," THEN ParseMembers(t, SkipWs(t, next + 1))
             ELSE 0

\* LLMClient.isValidJson: JSON.parse(str) does not throw
isValidJson(str) ==
  LET end == ParseValue(str, SkipWs(str, 1))
  IN end # 0 /\ SkipWs(str, end) > Len(str)

\* the characters of a text without the whitespace outside its strings
RECURSIVE StripFrom(_, _, _)
StripFrom(t, i, inString) ==
  IF i > Len(t) THEN <<>>
  ELSE IF t[i] = Quote THEN <<t[i]>> \o StripFrom(t, i + 1, ~inString)
  ELSE IF ~inString /\ t[i] \in Whitespace THEN StripFrom(t, i + 1, inString)
  ELSE <<t[i]>> \o StripFrom(t, i + 1, inString)

\* JSON.parse of a valid text: the value, written as its JSON text without
\* insignificant whitespace
JsonParse(str) == StripFrom(str, 1, FALSE)

\* String.trim on a text whose whitespace is blanks and line breaks
RECURSIVE TrimStart(_)
TrimStart(t) ==
  IF t # <<>> /\ Head(t) \in Whitespace THEN TrimStart(Tail(t)) ELSE t

RECURSIVE TrimEnd(_)
TrimEnd(t) ==
  IF t # <<>> /\ t[Len(t)] \in Whitespace
    THEN TrimEnd(SubSeq(t, 1, Len(t) - 1)) ELSE t

\* the repair of the arguments of a call pending at the finish: line breaks
\* become blanks, the text is trimmed and gets the braces it lacks
FixJson(arguments) ==
  LET flat == [i \in 1..Len(arguments) |->
                 IF arguments[i] = "\n" THEN " " ELSE arguments[i]]
      trimmed == TrimEnd(TrimStart(flat))
      opened == IF trimmed # <<>> /\ trimmed[1] = "{" THEN trimmed
                ELSE <<"{">> \o trimmed
  IN IF opened[Len(opened)] = "}" THEN opened ELSE opened \o <<"}">>

(***************************************************************************)
(* LLMClient.streamCompletion (llmClient.ts), called directly on a         *)
(* provider stream.  Of its log lines the model has the warning and the    *)
(* info line; the debug lines are below the level of every logger tried.   *)
(***************************************************************************)
\* a chunk of the provider stream: choices[0].delta.content (<<>> if absent),
\* choices[0].delta.tool_calls and choices[0].finish_reason ("null" for null)
ProviderChunk(content, tool_calls, finish_reason) ==
  [content |-> content, tool_calls |-> tool_calls,
   finish_reason |-> finish_reason]

\* an entry of delta.tool_calls: id, function.name ("" if absent) and
\* function.arguments (<<>> if absent or empty)
ToolCallDelta(id, name, arguments) ==
  [id |-> id, name |-> name, arguments |-> arguments]

\* the index of the pending call of an id, or 0
PendingIndex(pending, id) ==
  IF \E k \in 1..Len(pending) : pending[k].id = id
    THEN CHOOSE k \in 1..Len(pending) : pending[k].id = id
    ELSE 0

\* delete pendingToolCalls[id]
DeletePending(pending, id) == SelectSeq(pending, LAMBDA p : p.id # id)

\* the pending table after a fragment: a new entry for an id not pending,
\* otherwise the name is replaced and the arguments are appended
MergeDelta(pending, toolCall) ==
  LET k == PendingIndex(pending, toolCall.id)
  IN IF k = 0
       THEN Append(pending, [id |-> toolCall.id, name |-> toolCall.name,
                             arguments |-> toolCall.arguments])
       ELSE [pending EXCEPT
               ![k].name = IF toolCall.name # "" THEN toolCall.name ELSE @,
               ![k].arguments = @ \o toolCall.arguments]

\* the pending call is taken as complete: it has a name and arguments that
\* parse
IsComplete(pendingCall) ==
  /\ pendingCall.name # ""
  /\ pendingCall.arguments # <<>>
  /\ isValidJson(pendingCall.arguments)

\* one entry of delta.tool_calls: the fragment is merged, and the call of its
\* id is completed and removed from the pending ones if it is complete
ApplyDelta(st, toolCall) ==
  LET merged == MergeDelta(st.pending, toolCall)
      pendingCall == merged[PendingIndex(merged, toolCall.id)]
  IN IF IsComplete(pendingCall)
       THEN [pending |-> DeletePending(merged, toolCall.id),
             completed |-> Append(st.completed,
                                  ToolCall(toolCall.id, pendingCall.name,
                                           JsonParse(pendingCall.arguments)))]
       ELSE [pending |-> merged, completed |-> st.completed]

\* the for loop over delta.tool_calls
RECURSIVE ApplyDeltas(_, _)
ApplyDeltas(st, tool_calls) ==
  IF tool_calls = <<>> THEN st
  ELSE ApplyDeltas(ApplyDelta(st, Head(tool_calls)), Tail(tool_calls))

\* the pass over the calls still pending when the finish reason is
\* tool_calls: a call with a name and arguments is completed if its arguments,
\* repaired if they do not parse, parse; the others are dropped
RECURSIVE CompletePending(_, _)
CompletePending(pending, completed) ==
  IF pending = <<>> THEN completed
  ELSE LET pendingCall == Head(pending)
           args == IF isValidJson(pendingCall.arguments)
                     THEN pendingCall.arguments
                     ELSE FixJson(pendingCall.arguments)
       IN CompletePending(
            Tail(pending),
            IF pendingCall.name # "" /\ pendingCall.arguments # <<>>
               /\ isValidJson(args)
              THEN Append(completed, ToolCall(pendingCall.id, pendingCall.name,
                                              JsonParse(args)))
              ELSE completed)

\* the log after that pass: a warning for each call whose arguments do not
\* parse after the repair; a call without a name or without arguments is
\* passed over without a log line
RECURSIVE PendingWarnings(_, _)
PendingWarnings(pending, entries) ==
  IF pending = <<>> THEN entries
  ELSE LET pendingCall == Head(pending)
           args == IF isValidJson(pendingCall.arguments)
                     THEN pendingCall.arguments
                     ELSE FixJson(pendingCall.arguments)
       IN PendingWarnings(
            Tail(pending),
            IF pendingCall.name # "" /\ pendingCall.arguments # <<>>
               /\ ~isValidJson(args)
              THEN Log(entries, "warn", "LLMClient",
                       <<"Could not complete pending tool call:",
                         pendingCall.name>>)
              ELSE entries)

StreamingChunk(text, toolCalls, isComplete) ==
  [text |-> text, toolCalls |-> toolCalls, isComplete |-> isComplete]

StreamReturned(fullContent) == [kind |-> "returned", fullContent |-> fullContent]

\* the body of the for await loop for the next chunk of the provider stream,
\* with the return that follows the break on a finish reason
ProcessChunk ==
  /\ streamReturn = NoReturn
  /\ consumed < Len(events)
  /\ LET chunk == events[consumed + 1]
         fullContent == stream.fullContent \o chunk.content
         st == ApplyDeltas([pending |-> pendingToolCalls,
                            completed |-> stream.completedToolCalls],
                           chunk.tool_calls)
         finished == IF chunk.finish_reason = "tool_calls"
                       THEN [pending |-> <<>>,
                             completed |-> CompletePending(st.pending,
                                                           st.completed)]
                       ELSE st
         isComplete == chunk.finish_reason # "null"
         warned == IF chunk.finish_reason = "tool_calls"
                     THEN PendingWarnings(st.pending, logs)
                     ELSE logs
     IN /\ stream' = [fullContent |-> fullContent,
                      completedToolCalls |-> finished.completed]
        /\ pendingToolCalls' = finished.pending
        /\ chunks' = Append(chunks, StreamingChunk(chunk.content,
                                                   finished.completed,
                                                   isComplete))
        /\ streamReturn' = IF isComplete THEN StreamReturned(fullContent)
                           ELSE NoReturn
        /\ logs' = IF isComplete
                     THEN Log(warned, "info", "LLMClient", "Stream completed")
                     ELSE warned
  /\ consumed' = consumed + 1
  /\ UNCHANGED <<events, isRunning, localMessages, maxTokens, pc,
                 pendingAdditional, turnsWithoutToolCalls, allToolCalls,
                 prompt, outcome, runCalls, llmCalls, resets, turnLog, raised,
                 execVars, tpc, toolReturn, toolCallsArg, memReturn,
                 loggerVars, logCall, mem0Vars, historyArg>>

\* the provider stream ends without a finish reason: the loop ends and
\* streamCompletion returns the text
StreamExhausted ==
  /\ streamReturn = NoReturn
  /\ events # <<>>
  /\ consumed = Len(events)
  /\ streamReturn' = StreamReturned(stream.fullContent)
  /\ logs' = Log(logs, "info", "LLMClient", "Stream completed")
  /\ UNCHANGED <<events, consumed, pendingToolCalls, chunks, stream,
                 isRunning, localMessages, maxTokens, pc,
                 pendingAdditional, turnsWithoutToolCalls, allToolCalls,
                 prompt, outcome, runCalls, llmCalls, resets, turnLog, raised,
                 execVars, tpc, toolReturn, toolCallsArg, memReturn,
                 loggerVars, logCall, mem0Vars, historyArg>>

(***************************************************************************)
(* The provider streams tried: a text delta, then one tool call whose      *)
(* argument text comes in pieces under one id, then the end of the stream. *)
(***************************************************************************)
StreamCallId == "call_123"
StreamCallName == "calculator"

\* the argument texts: an object, and the same object followed by a line break
ArgsObject == <<"{", Quote, "a", Quote, ":", "1", "}">>
ArgsObjectNewline == ArgsObject \o <<"\n">>
ArgumentTexts == {ArgsObject, ArgsObjectNewline}

\* the places at which a text may be cut into at most MaxFragments pieces
CutSets(text) ==
  { cuts \in SUBSET (1..(Len(text) - 1)) : Cardinality(cuts) < MaxFragments }

\* the pieces of text from position start on, cut after each position of cuts
RECURSIVE Pieces(_, _, _)
Pieces(text, cuts, start) ==
  LET ahead == { c \in cuts : c >= start }
  IN IF ahead = {} THEN <<SubSeq(text, start, Len(text))>>
     ELSE LET c == CHOOSE x \in ahead : \A y \in ahead : x <= y
          IN <<SubSeq(text, start, c)>> \o Pieces(text, cuts, c + 1)

\* where the name of the call comes: with the first piece, with every piece,
\* or in a fragment of its own before the pieces
NameModes == {"first", "every", "alone"}

\* how the stream ends: a last chunk with a finish reason, or no more chunks
Endings == {"tool_calls", "stop", "null"}

\* the chunks that carry the pieces, one fragment each
FragmentChunks(pieces, nameMode) ==
  (IF nameMode = "alone"
     THEN <<ProviderChunk(<<>>, <<ToolCallDelta(StreamCallId, StreamCallName,
                                                <<>>)>>, "null")>>
     ELSE <<>>)
  \o [k \in 1..Len(pieces) |->
        ProviderChunk(<<>>,
                      <<ToolCallDelta(StreamCallId,
                                      IF nameMode = "every"
                                         \/ (nameMode = "first" /\ k = 1)
                                        THEN StreamCallName ELSE "",
                                      pieces[k])>>,
                      "null")]

ProviderStream(pieces, nameMode, ending) ==
  <<ProviderChunk(T_final, <<>>, "null")>>
  \o FragmentChunks(pieces, nameMode)
  \o (IF ending = "null" THEN <<>> ELSE <<ProviderChunk(<<>>, <<>>, ending)>>)

ProviderStreams ==
  UNION { { ProviderStream(Pieces(text, cuts, 1), nameMode, ending) :
              cuts \in CutSets(text), nameMode \in NameModes,
              ending \in Endings } :
          text \in ArgumentTexts }

\* streamCompletion is called on one of the provider streams
InitStream ==
  /\ events \in ProviderStreams
  /\ consumed = 0
  /\ pendingToolCalls = <<>>
  /\ chunks = <<>>
  /\ streamReturn = NoReturn
  /\ stream = NoStream
  /\ isRunning = FALSE
  /\ localMessages = <<>>
  /\ maxTokens = DefaultMaxTokens
  /\ pc = "idle"
  /\ pendingAdditional = <<>>
  /\ turnsWithoutToolCalls = 0
  /\ allToolCalls = <<>>
  /\ prompt = <<>>
  /\ batch = <<>>
  /\ parallel = TRUE
  /\ retries = DefaultRetries
  /\ outcome = NoOutcome
  /\ raised = NoError
  /\ runCalls = 0
  /\ llmCalls = 0
  /\ resets = 0
  /\ turnLog = <<>>
  /\ tpc = "idle"
  /\ toolReturn = NoReturn
  /\ settled = <<>>
  /\ toolCallsArg = <<>>
  /\ memReturn = NoReturn
  /\ logs = <<>>
  /\ isEnabled = FALSE
  /\ logLevel = "info"
  /\ logCall = NoReturn
  /\ historyArg = <<>>
  /\ mem0Client = FALSE
  /\ forwarding = <<>>
  /\ mem0Messages = <<>>

NextStream ==
  \/ ProcessChunk
  \/ StreamExhausted

SpecStream == InitStream /\ [][NextStream]_vars

(***************************************************************************)
(* Direct calls of the Logger (src/unnamed/part_017), on a logger          *)
(* constructed with any of the configurations.                             *)
(***************************************************************************)
\* the loop, the executor, the store and the stream client at rest
AtRest ==
  /\ consumed = 0
  /\ pendingToolCalls = <<>>
  /\ chunks = <<>>
  /\ streamReturn = NoReturn
  /\ stream = NoStream
  /\ isRunning = FALSE
  /\ localMessages = <<>>
  /\ maxTokens = DefaultMaxTokens
  /\ pc = "idle"
  /\ pendingAdditional = <<>>
  /\ turnsWithoutToolCalls = 0
  /\ allToolCalls = <<>>
  /\ prompt = <<>>
  /\ batch = <<>>
  /\ parallel = TRUE
  /\ retries = DefaultRetries
  /\ outcome = NoOutcome
  /\ raised = NoError
  /\ runCalls = 0
  /\ llmCalls = 0
  /\ resets = 0
  /\ turnLog = <<>>
  /\ tpc = "idle"
  /\ toolReturn = NoReturn
  /\ settled = <<>>
  /\ toolCallsArg = <<>>
  /\ memReturn = NoReturn

LogComponent == "TestComponent"
LogMessages == {"first", "second"}

nonLoggerVars == <<loopVars, execVars, tpc, toolReturn, toolCallsArg,
                   memReturn, clientVars, loggerVars, mem0Vars, historyArg>>

\* logger.debug / info / warn / error (message)
CallLog(level, message) ==
  /\ Len(logs) < MaxLogs
  /\ logs' = Log(logs, level, LogComponent, message)
  /\ logCall' = [op |-> "log", level |-> level, message |-> message]
  /\ UNCHANGED nonLoggerVars

\* logger.getLogs(): a copy of the entries
CallGetLogs ==
  /\ logCall' = [op |-> "getLogs", value |-> logs]
  /\ UNCHANGED <<logs, nonLoggerVars>>

\* logger.clearLogs()
CallClearLogs ==
  /\ logs' = <<>>
  /\ logCall' = [op |-> "clearLogs"]
  /\ UNCHANGED nonLoggerVars

InitLogger ==
  /\ AtRest
  /\ events = <<>>
  /\ logs = <<>>
  /\ isEnabled \in BOOLEAN
  /\ logLevel \in LogLevels
  /\ logCall = NoReturn
  /\ historyArg = <<>>
  /\ mem0Client = FALSE
  /\ forwarding = <<>>
  /\ mem0Messages = <<>>

NextLogger ==
  \/ \E level \in LogLevels, message \in LogMessages : CallLog(level, message)
  \/ CallGetLogs
  \/ CallClearLogs

SpecLogger == InitLogger /\ [][NextLogger]_vars

(***************************************************************************)
(* MemoryManager with the mem0 client (src/unnamed/part_018): each add     *)
(* pushes to the local store and then awaits mem0Client.add, which the     *)
(* external service resolves or rejects later.  Direct calls, which may    *)
(* overlap.                                                                *)
(***************************************************************************)
\* add calls made on one MemoryManager
MaxMem0Adds == 3

LoggedComponent == "MemoryManager"

\* the words of the log messages about an operation
Mem0Subject(op) ==
  CASE op = "addUserMessage" -> "user message"
    [] op = "addAssistantMessage" -> "assistant message"
    [] op = "addToolResults" -> "tool results"

AddedLog(op) == <<"Added", Mem0Subject(op), "to mem0">>
FailedLog(op) == <<"Failed to add", Mem0Subject(op), "to mem0">>

\* the log after the constructor of the MemoryManager
ConstructorLog(entries) ==
  Log(IF mem0Client
        THEN Log(entries, "info", LoggedComponent, "Initialized mem0ai client")
        ELSE Log(entries, "warn", LoggedComponent,
                 "No mem0ai API key provided, using local memory only"),
      "info", LoggedComponent, "Initialized")

RemoveAt(s, k) == SubSeq(s, 1, k - 1) \o SubSeq(s, k + 1, Len(s))

nonMem0Vars ==
  <<isRunning, maxTokens, pc, pendingAdditional, turnsWithoutToolCalls,
    allToolCalls, stream, prompt, outcome, runCalls, llmCalls, resets,
    turnLog, raised, execVars, tpc, toolReturn, toolCallsArg, clientVars,
    loggerVars, logCall, mem0Client, historyArg>>

\* an add operation up to its await of mem0Client.add, or to its return when
\* there is no client; store is the local store after the push
AddThenForward(op, store) ==
  /\ Len(localMessages) < MaxMem0Adds
  /\ localMessages' = store
  /\ IF mem0Client
       THEN /\ forwarding' =
                 Append(forwarding, [op |-> op, message |-> store[Len(store)]])
            /\ UNCHANGED memReturn
       ELSE /\ memReturn' = [op |-> op, success |-> TRUE]
            /\ UNCHANGED forwarding
  /\ UNCHANGED <<logs, mem0Messages, nonMem0Vars>>

\* mem0Client.add of the k-th operation in flight resolves: the debug line,
\* then the operation returns
Mem0AddResolves(k) ==
  /\ k \in 1..Len(forwarding)
  /\ forwarding' = RemoveAt(forwarding, k)
  /\ mem0Messages' = Append(mem0Messages, forwarding[k].message)
  /\ logs' = Log(logs, "debug", LoggedComponent, AddedLog(forwarding[k].op))
  /\ memReturn' = [op |-> forwarding[k].op, success |-> TRUE]
  /\ UNCHANGED <<localMessages, nonMem0Vars>>

\* variant of Mem0AddRejects: the rejection is reported by the operation
Mem0AddRejectsReported(k) ==
  /\ k \in 1..Len(forwarding)
  /\ forwarding' = RemoveAt(forwarding, k)
  /\ logs' = Log(logs, "error", LoggedComponent, FailedLog(forwarding[k].op))
  /\ memReturn' = [op |-> forwarding[k].op, success |-> FALSE]
  /\ UNCHANGED <<localMessages, mem0Messages, nonMem0Vars>>

\* mem0Client.add of the k-th operation in flight rejects: the catch block
\* logs the error, then the operation returns
Mem0AddRejects(k) ==
  /\ k \in 1..Len(forwarding)
  /\ forwarding' = RemoveAt(forwarding, k)
  /\ logs' = Log(logs, "error", LoggedComponent, FailedLog(forwarding[k].op))
  /\ memReturn' = [op |-> forwarding[k].op, success |-> TRUE]
  /\ UNCHANGED <<localMessages, mem0Messages, nonMem0Vars>>

\* a MemoryManager constructed with or without an API key, on a logger at
\* level debug or warn
InitMem0 ==
  /\ AtRest
  /\ events = <<>>
  /\ isEnabled = TRUE
  /\ logLevel \in {"debug", "warn"}
  /\ logCall = NoReturn
  /\ historyArg = <<>>
  /\ mem0Client \in BOOLEAN
  /\ logs = ConstructorLog(<<>>)
  /\ forwarding = <<>>
  /\ mem0Messages = <<>>

NextMem0 ==
  \/ AddThenForward("addUserMessage", addUserMessage(localMessages, T_ask))
  \/ AddThenForward("addAssistantMessage",
                    addAssistantMessage(localMessages, T_final, <<CallA>>))
  \/ \E toolResults \in MemResultChoices :
       AddThenForward("addToolResults",
                      addToolResults(localMessages, toolResults))
  \/ \E k \in 1..MaxMem0Adds : Mem0AddResolves(k)
  \/ \E k \in 1..MaxMem0Adds : Mem0AddRejects(k)

SpecMem0 == InitMem0 /\ [][NextMem0]_vars

(***************************************************************************)
(* AgentLoop.run and AgentLoop.reset (agentLoop.ts), on a loop whose       *)
(* logger is enabled at level warn and whose MemoryManager has no API key. *)
(* The model streams and the tool do not fail, so that run and the         *)
(* components it calls make log calls below the level only; the host may   *)
(* call reset at any time.                                                 *)
(***************************************************************************)
InitReset ==
  /\ AtRest
  /\ events = <<>>
  /\ isEnabled = TRUE
  /\ logLevel = "warn"
  /\ logCall = NoReturn
  /\ historyArg = <<>>
  /\ mem0Client = FALSE
  /\ logs = Log(ConstructorLog(<<>>), "info", "AgentLoop", "Initialized")
  /\ forwarding = <<>>
  /\ mem0Messages = <<>>

NextReset ==
  \/ \E additionalMessages \in AdditionalChoices : RunAccepted(additionalMessages)
  \/ UserMessageAdded
  \/ \E text \in ModelTexts : StreamText(text)
  \/ StreamToolCall(1)
  \/ StreamEnd
  \/ AssistantMessageAdded
  \/ \E i \in 1..Len(batch) : ToolSettle(i, R_four)
  \/ ToolsReturned
  \/ ToolResultsAdded
  \/ Reset

SpecReset == InitReset /\ [][NextReset]_vars

(***************************************************************************)
(* Direct calls of PromptManager.createPrompt (promptManager.ts) on a      *)
(* history chosen by the caller.                                           *)
(***************************************************************************)
\* the messages of the histories tried: the last one alone is over the
\* context limit
HistoryMessages ==
  { Message("user", T_ask, <<>>, <<>>),
    Message("assistant", T_final, <<CallA>>, <<>>),
    Message("system", ToolResultsText, <<>>,
            <<ToolResult(CallA, R_four, NoError)>>),
    Message("user", T_giant, <<>>, <<>>) }

Histories == UNION { [1..n -> HistoryMessages] : n \in 0..MaxHistory }

\* createPrompt(initialPrompt, history, tools) is called
CallCreatePrompt ==
  /\ prompt = <<>>
  /\ prompt' = createPrompt(initialPrompt, historyArg)
  /\ UNCHANGED <<isRunning, localMessages, maxTokens, pc, pendingAdditional,
                 turnsWithoutToolCalls, allToolCalls, stream, outcome,
                 runCalls, llmCalls, resets, turnLog, raised, execVars,
                 testVars>>

InitPrompt ==
  /\ AtRest
  /\ events = <<>>
  /\ logs = <<>>
  /\ isEnabled = FALSE
  /\ logLevel = "info"
  /\ logCall = NoReturn
  /\ historyArg \in Histories
  /\ mem0Client = FALSE
  /\ forwarding = <<>>
  /\ mem0Messages = <<>>

NextPrompt == CallCreatePrompt

SpecPrompt == InitPrompt /\ [][NextPrompt]_vars

(***************************************************************************)
(* AgentLoop.run (agentLoop.ts) on model streams that complete tool calls  *)
(* with and without a call id, in one run.  LLMClient gives a call the id  *)
(* '' when the provider sent none (llmClient.ts 161).  The tool does not   *)
(* fail.                                                                   *)
(***************************************************************************)
NoCallId == ""

CallNoIdA == ToolCall(NoCallId, "calculator", "{\"expression\":\"2+2\"}")
CallNoIdC == ToolCall(NoCallId, "calculator", "{\"expression\":\"3+3\"}")

\* the calls a turn may complete
TurnCalls == {CallA, CallC, CallNoIdA, CallNoIdC}

\* the stream of the first turn completes one more call, different from the
\* ones it completed (the turns after the first complete no call: the calls
\* collected are a local of the turn)
StreamSurfacesAnother(toolCall) ==
  /\ llmCalls = 1
  /\ Len(stream.completedToolCalls) < MaxTurnCalls
  /\ \A k \in 1..Len(stream.completedToolCalls) :
       stream.completedToolCalls[k] # toolCall
  /\ StreamSurfaces(toolCall)

NextCalls ==
  \/ runCalls = 0 /\ RunAccepted(<<>>)
  \/ StreamText(T_final)
  \/ \E toolCall \in TurnCalls : StreamSurfacesAnother(toolCall)
  \/ StreamEnd
  \/ AssistantMessageAdded
  \/ \E i \in 1..Len(batch) : ToolSettle(i, R_four)
  \/ ToolsReturned
  \/ ToolResultsAdded

SpecCalls == Init /\ [][NextCalls]_vars

(***************************************************************************)
(* LLMClient.streamCompletion on provider streams that carry two tool      *)
(* calls whose fragments interleave, with a logger at level warn.  The     *)
(* fragments carry the id of their call on every fragment, on the first    *)
(* fragment of the call only (as the provider sends them: the later        *)
(* fragments have an index and no id), or on none.                         *)
(***************************************************************************)
StreamedCall(id, name, arguments) ==
  [id |-> id, name |-> name, arguments |-> arguments]

StreamedX == StreamedCall(StreamCallId, StreamCallName, ArgsObject)
StreamedY == StreamedCall("call_456", "search",
                          <<"{", Quote, "b", Quote, ":", "2", "}">>)
StreamedCalls == {StreamedX, StreamedY}

\* the pieces in which the argument text of a call comes: whole, cut after
\* its 3rd or its 6th character, or whole after a first fragment with the
\* name and no arguments
PieceChoices(text) ==
  { <<text>>,
    <<SubSeq(text, 1, 3), SubSeq(text, 4, Len(text))>>,
    <<SubSeq(text, 1, 6), SubSeq(text, 7, Len(text))>>,
    <<<<>>, text>> }

IdModes == {"every", "first", "none"}

\* the fragments of a call: the name comes with the first
Fragments(call, pieces, idMode) ==
  [k \in 1..Len(pieces) |->
     ToolCallDelta(IF idMode = "every" \/ (idMode = "first" /\ k = 1)
                     THEN call.id ELSE NoCallId,
                   IF k = 1 THEN call.name ELSE "",
                   pieces[k])]

\* the orders in which the fragments of two calls may come
RECURSIVE Merges(_, _)
Merges(a, b) ==
  IF a = <<>> THEN {b}
  ELSE IF b = <<>> THEN {a}
  ELSE { <<Head(a)>> \o m : m \in Merges(Tail(a), b) }
       \cup { <<Head(b)>> \o m : m \in Merges(a, Tail(b)) }

InterleavedStream(fragments, ending) ==
  <<ProviderChunk(T_final, <<>>, "null")>>
  \o [k \in 1..Len(fragments) |->
        ProviderChunk(<<>>, <<fragments[k]>>, "null")]
  \o (IF ending = "null" THEN <<>> ELSE <<ProviderChunk(<<>>, <<>>, ending)>>)

InterleavedStreams ==
  UNION { { InterleavedStream(fragments, ending) :
              fragments \in Merges(Fragments(StreamedX, px, idMode),
                                   Fragments(StreamedY, py, idMode)),
              ending \in Endings } :
          px \in PieceChoices(StreamedX.arguments),
          py \in PieceChoices(StreamedY.arguments),
          idMode \in IdModes }

InitInterleaved ==
  /\ AtRest
  /\ events \in InterleavedStreams
  /\ logs = <<>>
  /\ isEnabled = TRUE
  /\ logLevel = "warn"
  /\ logCall = NoReturn
  /\ historyArg = <<>>
  /\ mem0Client = FALSE
  /\ forwarding = <<>>
  /\ mem0Messages = <<>>

SpecInterleaved == InitInterleaved /\ [][NextStream]_vars

(***************************************************************************)
(* Properties of run.                                                      *)
(***************************************************************************)
LastMessage(messages) == messages[Len(messages)]

\* the store holds no user message other than the initial prompt: in the
\* first run, no additional message was passed
NoAdditionalGiven ==
  \A k \in 1..Len(localMessages) :
    localMessages[k].role = "user" => localMessages[k].content = initialPrompt

\* every turn of the run so far gave no tool call and a text the final-answer
\* test rejects
AllPlainTurns ==
  \A k \in 1..Len(turnLog) :
    turnLog[k].toolCalls = 0 /\ ~isLikelyFinalAnswer(turnLog[k].content)

\* C1: a run() call made while a run is in flight is never accepted; it raises
\* 'Agent loop is already running' and leaves the store, the model calls, the
\* tool executions and the run in flight as they were
C1_ReentrantRunRejected ==
  [][/\ isRunning => runCalls' = runCalls
     /\ raised' = AlreadyRunningError =>
          /\ isRunning
          /\ UNCHANGED <<runVars, execVars>>]_vars

\* a run() call was rejected while the tools of a turn were executing
C1_Witness ==
  /\ raised = AlreadyRunningError
  /\ pc = "tools"
  /\ Len(batch) > 0
  /\ Len(localMessages) > 0

\* C2: when every turn of a run gives no tool call and a text the final-answer
\* test rejects, the run makes at most MAX_TURNS_WITHOUT_TOOLS model turns, and
\* it has then returned the text of the last turn as finalAnswer
C2_PlainTurnsCapped ==
  AllPlainTurns =>
    /\ Len(turnLog) <= MAX_TURNS_WITHOUT_TOOLS
    /\ (Len(turnLog) = MAX_TURNS_WITHOUT_TOOLS /\ pc = "idle") =>
         /\ ~isRunning
         /\ outcome.kind = "answer"
         /\ outcome.finalAnswer = turnLog[Len(turnLog)].content

\* a run ended by the cap, after three plain turns
C2_Witness ==
  /\ pc = "idle"
  /\ Len(turnLog) = MAX_TURNS_WITHOUT_TOOLS
  /\ AllPlainTurns
  /\ outcome.kind = "answer"
  /\ outcome.finalAnswer = T_ask

C4_FourMessageHistory ==
  ( /\ runCalls = 1
    /\ NoAdditionalGiven
    /\ pc = "idle"
    /\ outcome.kind = "answer"
    /\ Len(turnLog) = 2
    /\ turnLog[1].toolCalls = 1
    /\ turnLog[2].toolCalls = 0
    /\ isLikelyFinalAnswer(turnLog[2].content) )
  => /\ outcome.finalAnswer = turnLog[2].content
     /\ Len(outcome.history) = 4
     /\ outcome.history[1].role = "user"
     /\ outcome.history[1].content = initialPrompt
     /\ outcome.history[2].role = "assistant"
     /\ Len(outcome.history[2].toolCalls) = 1
     /\ outcome.history[3].role = "system"
     /\ Len(outcome.history[3].toolResults) = 1
     /\ outcome.history[4].role = "assistant"
     /\ outcome.history[4].content = turnLog[2].content

\* C5: in a first run without additional messages the initial prompt is in
\* the store, as its first message and with the user role, when the first
\* model call is made
C5_InitialPromptSeeded ==
  (runCalls = 1 /\ NoAdditionalGiven /\ pc = "llm")
  => /\ Len(localMessages) > 0
     /\ localMessages[1].role = "user"
     /\ localMessages[1].content = initialPrompt

\* a result of the list is a success without a value
SomeValueMissing(toolResults) ==
  \E k \in 1..Len(toolResults) :
    toolResults[k].error = NoError /\ toolResults[k].result = UNDEFINED

\* C6: a failed tool call does not end the run: while the tools execute the
\* run stays in flight; when they have all resolved, one system message with
\* the results of the batch, the failed ones with their error and a null
\* result, is appended; from there the loop makes the next model call, and the
\* run ends in an error there only when a successful call gave no value
C6_FailedCallAbsorbed ==
  [][/\ pc = "tools" =>
          /\ pc' \in {"tools", "addResults"}
          /\ isRunning'
          /\ outcome' = NoOutcome
     /\ (pc = "tools" /\ pc' = "addResults") =>
          /\ Len(localMessages') = Len(localMessages) + 1
          /\ SubSeq(localMessages', 1, Len(localMessages)) = localMessages
          /\ LastMessage(localMessages').role = "system"
          /\ LastMessage(localMessages').toolResults = BatchResults(batch)
          /\ \A i \in 1..Len(batch) :
               batch[i].error # NoError =>
                 /\ LastMessage(localMessages').toolResults[i].error
                      = batch[i].error
                 /\ LastMessage(localMessages').toolResults[i].result = R_null
     /\ (pc = "addResults" /\ pc' # "addResults") =>
          \/ /\ pc' = "llm"
             /\ isRunning'
             /\ llmCalls' = llmCalls + 1
             /\ outcome' = NoOutcome
          \/ SomeValueMissing(LastMessage(localMessages).toolResults)]_vars

\* the next model call is in flight after a turn whose tool calls both failed,
\* one by an unknown name and one on every attempt
C6_Witness ==
  /\ pc = "llm"
  /\ isRunning
  /\ Len(localMessages) > 0
  /\ LastMessage(localMessages).role = "system"
  /\ Len(LastMessage(localMessages).toolResults) = 2
  /\ LastMessage(localMessages).toolResults[1].error = FailedToExecute
  /\ LastMessage(localMessages).toolResults[2].error = ToolNotFound

\* C7: a failure of the model stream ends the run in that step: no further
\* model call is made, the run is no longer in flight, and what it raises is an
\* AgentLoopError caused by the LLMProviderError that wraps the failure; there
\* is no final answer
C7_StreamFailureIsFatal ==
  [][(pc = "llm" /\ pc' \notin {"llm", "addAssistant"}) =>
       /\ pc' = "idle"
       /\ ~isRunning'
       /\ llmCalls' = llmCalls
       /\ localMessages' = localMessages
       /\ outcome'.kind = "error"
       /\ outcome'.error = <<"AgentLoopError", "LLMProviderError", "APIError">>
       /\ outcome'.finalAnswer = <<>>]_vars

\* the stream failed in the second turn of a run, after a tool turn
C7_Witness ==
  /\ pc = "idle"
  /\ outcome.kind = "error"
  /\ outcome.error = <<"AgentLoopError", "LLMProviderError", "APIError">>
  /\ Len(turnLog) = 1
  /\ turnLog[1].toolCalls > 0
  /\ llmCalls = 2

(***************************************************************************)
(* Properties of the ToolManager.                                          *)
(***************************************************************************)
\* C8: every executeTool call returns a ToolResult and raises nothing; the
\* result has an error exactly when the name is unknown or every invocation
\* failed, and then its result is null; a success has no error
C8_ToolResultShape ==
  /\ raised = NoError
  /\ toolReturn.kind = "returned" =>
       \A i \in 1..Len(toolReturn.results) :
         LET toolResult == toolReturn.results[i]
             unknown == toolResult.toolCall.name \notin RegisteredTools
             allFailed == toolReturn.failed[i] = toolReturn.invoked[i]
         IN /\ toolResult.error # NoError <=> (unknown \/ allFailed)
            /\ toolResult.error # NoError => toolResult.result = R_null
            /\ toolResult.error \in {NoError, ToolNotFound, FailedToExecute}
            /\ toolResult.error = ToolNotFound <=> unknown

\* executeTool returned the error result of a tool that failed three times
C8_Witness ==
  /\ toolReturn.kind = "returned"
  /\ Len(toolReturn.results) = 1
  /\ toolReturn.results[1].toolCall = CallA
  /\ toolReturn.results[1].error = FailedToExecute
  /\ toolReturn.results[1].result = R_null
  /\ toolReturn.failed[1] = 3

\* C9: a registered tool that failed on every attempt was invoked 1 + retries
\* times when its error result is returned; one that first succeeded on
\* attempt k was invoked k times, k <= 1 + retries, and its value is returned
C9_RetryBound ==
  toolReturn.kind = "returned" =>
    \A i \in 1..Len(toolReturn.results) :
      LET toolResult == toolReturn.results[i]
      IN toolResult.toolCall.name \in RegisteredTools =>
           /\ toolResult.error # NoError =>
                /\ toolReturn.invoked[i] = 1 + toolReturn.retries
                /\ toolReturn.failed[i] = toolReturn.invoked[i]
           /\ toolResult.error = NoError =>
                /\ toolReturn.invoked[i] = toolReturn.failed[i] + 1
                /\ toolReturn.invoked[i] <= 1 + toolReturn.retries
                /\ toolResult.result \in ToolOutcomes \ {"fail"}

\* with retries = 2 a tool failed twice and succeeded on its third attempt
C9_Witness ==
  /\ toolReturn.kind = "returned"
  /\ toolReturn.retries = 2
  /\ Len(toolReturn.results) = 1
  /\ toolReturn.results[1].error = NoError
  /\ toolReturn.results[1].result = R_four
  /\ toolReturn.invoked[1] = 3
  /\ toolReturn.failed[1] = 2

\* C10: an executeTool call with an unknown name has returned as soon as it is
\* made, with the 'Tool not found' error and a null result: it is never
\* running or waiting for a retry, and no tool was invoked for it, whatever
\* the retries argument
C10_UnknownToolAtOnce ==
  /\ \A i \in 1..Len(batch) :
       (batch[i].call.name \notin RegisteredTools
        /\ batch[i].status # "queued") =>
         /\ batch[i].status = "done"
         /\ batch[i].error = ToolNotFound
         /\ batch[i].result = R_null
         /\ batch[i].attempts = 0
  /\ toolReturn.kind = "returned" =>
       \A i \in 1..Len(toolReturn.results) :
         toolReturn.results[i].toolCall.name \notin RegisteredTools =>
           /\ toolReturn.results[i].error = ToolNotFound
           /\ toolReturn.results[i].result = R_null
           /\ toolReturn.invoked[i] = 0

\* executeTool was called with an unknown name and retries = 2
C10_Witness ==
  /\ tpc = "exec"
  /\ retries = 2
  /\ Len(batch) = 1
  /\ batch[1].call = CallB
  /\ batch[1].status = "done"
  /\ batch[1].attempts = 0

\* C11: executeTools returns one result per input call, the i-th result that
\* of the i-th input call, in both modes and whatever the order in which the
\* calls returned; for an empty list it returns an empty list and no
\* executeTool call is made
C11_ResultsInInputOrder ==
  toolReturn.kind = "returned" =>
    /\ Len(toolReturn.results) = Len(toolCallsArg)
    /\ \A i \in 1..Len(toolCallsArg) :
         toolReturn.results[i].toolCall = toolCallsArg[i]
    /\ Len(toolReturn.order) = Len(toolCallsArg)
    /\ toolCallsArg = <<>> => (batch = <<>> /\ tpc = "idle")

\* a parallel executeTools call of two registered tools has returned, the
\* second call having returned before the first
C11_Witness ==
  /\ toolReturn.kind = "returned"
  /\ parallel
  /\ toolCallsArg = <<CallA, CallC>>
  /\ toolReturn.order = <<2, 1>>
  /\ toolReturn.results[1].toolCall = CallA
  /\ toolReturn.results[2].toolCall = CallC

\* the entries of the batch that a step changed
ChangedEntries ==
  { i \in 1..Len(batch) : batch'[i] # batch[i] }

\* C12: in a parallel batch every call runs to its own outcome: a step of one
\* call (an attempt that ends, a retry, an exhausted retry) changes no other
\* call of the batch, a call that has returned keeps its result, and the batch
\* returns only when every call has returned, each result being that call's
\* own success or error
C12_ParallelCallsIndependent ==
  [][(parallel /\ tpc = "exec") =>
       /\ tpc' = "exec" =>
            /\ Len(batch') = Len(batch)
            /\ Cardinality(ChangedEntries) <= 1
            /\ \A i \in 1..Len(batch) :
                 batch[i].status = "done" => batch'[i] = batch[i]
       /\ tpc' = "idle" =>
            /\ AllDone(batch)
            /\ Len(toolReturn'.results) = Len(batch)
            /\ \A i \in 1..Len(batch) :
                 /\ toolReturn'.results[i].toolCall = batch[i].call
                 /\ toolReturn'.results[i].result = batch[i].result
                 /\ toolReturn'.results[i].error = batch[i].error]_vars

\* a parallel batch has returned the error of a call that failed on both of
\* its attempts together with the value of a sibling that returned after it
C12_Witness ==
  /\ toolReturn.kind = "returned"
  /\ parallel
  /\ toolReturn.retries = 1
  /\ toolCallsArg = <<CallA, CallC>>
  /\ toolReturn.order = <<1, 2>>
  /\ toolReturn.results[1].error = FailedToExecute
  /\ toolReturn.invoked[1] = 2
  /\ toolReturn.results[2].error = NoError
  /\ toolReturn.results[2].result = R_four

\* C13: in a tool turn the run leaves the tool step only when every call of
\* the batch has returned, and it then appends the tool-result message with one
\* result per call; a model call is started only when no model call is in
\* flight and no tool call is in flight, one at a time, and no tool call is in
\* flight during a model call
C13_ToolBarrier ==
  [][/\ (pc = "tools" /\ pc' # "tools") =>
          /\ pc' = "addResults"
          /\ \A i \in 1..Len(batch) : batch[i].status = "done"
          /\ Len(localMessages') = Len(localMessages) + 1
          /\ Len(LastMessage(localMessages').toolResults) = Len(batch)
     /\ (pc = "tools" /\ pc' = "tools") => localMessages' = localMessages
     /\ llmCalls' # llmCalls =>
          /\ llmCalls' = llmCalls + 1
          /\ pc \notin {"llm", "tools"}
          /\ pc' = "llm"
          /\ batch = <<>>
     /\ pc' = "llm" => batch' = <<>>
     /\ batch' # <<>> => pc' = "tools"]_vars

\* the second model call of a run is in flight after a turn with two tool
\* calls, of which the first gave a value and the second had an unknown name
C13_Witness ==
  /\ pc = "llm"
  /\ llmCalls = 2
  /\ batch = <<>>
  /\ Len(turnLog) = 1
  /\ turnLog[1].toolCalls = 2
  /\ LastMessage(localMessages).role = "system"
  /\ LastMessage(localMessages).toolResults[1].result = R_four
  /\ LastMessage(localMessages).toolResults[2].error = ToolNotFound

\* C14: in sequential mode a call is made only when the call before it in the
\* input has returned, all its retries included: while call i has not
\* returned, call i + 1 is not made and its tool was never invoked; the calls
\* return in input order
C14_SequentialInOrder ==
  /\ (~parallel /\ tpc = "exec") =>
       \A i \in 1..(Len(batch) - 1) :
         batch[i].status # "done" =>
           /\ batch[i + 1].status = "queued"
           /\ batch[i + 1].attempts = 0
  /\ (~parallel /\ toolReturn.kind = "returned") =>
       \A k \in 1..Len(toolReturn.order) : toolReturn.order[k] = k

\* a sequential batch: the first call gave a value on its third attempt, and
\* the second call is in its first attempt
C14_Witness ==
  /\ ~parallel
  /\ tpc = "exec"
  /\ Len(batch) = 2
  /\ batch[1].status = "done"
  /\ batch[1].attempts = 3
  /\ batch[1].error = NoError
  /\ batch[2].status = "running"
  /\ batch[2].attempts = 1

(***************************************************************************)
(* Properties of the MemoryManager and of eviction.                        *)
(***************************************************************************)
\* the last direct call was getMessagesForPrompt and it returned a view
ViewTaken ==
  /\ "op" \in DOMAIN memReturn
  /\ memReturn.op = "getMessagesForPrompt"
  /\ memReturn.error = <<>>

SystemMessages(messages) == SelectSeq(messages, LAMBDA m : m.role = "system")

NonSystemMessages(messages) ==
  SelectSeq(messages, LAMBDA m : m.role # "system")

\* the store is over the budget: eviction runs
OverBudget == estimateMessagesTokens(localMessages) > maxTokens

\* C15: the system messages of the view are the system messages of the store,
\* all of them and in their order, whatever the budget
C15_SystemMessagesPinned ==
  ViewTaken =>
    SystemMessages(memReturn.view) = SystemMessages(localMessages)

\* a view of a store whose three system messages alone are over the budget,
\* with non-system messages evicted
C15_Witness ==
  /\ ViewTaken
  /\ Len(SystemMessages(localMessages)) = 3
  /\ estimateMessagesTokens(SystemMessages(localMessages)) > maxTokens
  /\ Len(NonSystemMessages(localMessages)) = 2
  /\ memReturn.view = SystemMessages(localMessages)

\* C16: after eviction the estimate of the view is at most the budget less the
\* buffer of 100 tokens, or, when the system messages alone are above that,
\* the estimate of the system messages alone
C16_ViewWithinBudget ==
  (ViewTaken /\ OverBudget) =>
    estimateMessagesTokens(memReturn.view)
      <= Max(maxTokens - SafetyBuffer,
             estimateMessagesTokens(SystemMessages(localMessages)))

\* a view after eviction that kept non-system messages, next to a system
\* message, and dropped others
C16_Witness ==
  /\ ViewTaken
  /\ OverBudget
  /\ Len(SystemMessages(memReturn.view)) >= 1
  /\ Len(NonSystemMessages(memReturn.view)) >= 2
  /\ Len(memReturn.view) < Len(localMessages)
  /\ estimateMessagesTokens(memReturn.view) <= maxTokens - SafetyBuffer

\* the newest non-system message of a sequence that has one
Newest(messages) ==
  NonSystemMessages(messages)[Len(NonSystemMessages(messages))]

\* the view ends its non-system messages with the newest one of the store
NewestKept ==
  /\ Len(NonSystemMessages(memReturn.view)) >= 1
  /\ Newest(memReturn.view) = Newest(localMessages)

\* eviction ran on a store that holds a non-system message
EvictedWithNewest ==
  /\ ViewTaken
  /\ OverBudget
  /\ Len(NonSystemMessages(localMessages)) >= 1

RECURSIVE InOrderFrom(_, _, _, _)
InOrderFrom(view, i, store, j) ==
  IF i > Len(view) THEN TRUE
  ELSE IF j > Len(store) THEN FALSE
  ELSE IF view[i] = store[j] THEN InOrderFrom(view, i + 1, store, j + 1)
  ELSE InOrderFrom(view, i, store, j + 1)

IsSubsequence(view, store) == InOrderFrom(view, 1, store, 1)

\* C18: the view is a subsequence of the store: the kept messages, system or
\* not, are in the order they have in the store
C18_ViewIsSubsequence ==
  ViewTaken => IsSubsequence(memReturn.view, localMessages)

\* the operations that replace the store as a whole
StoreReplaced == memReturn'.op \in {"clearMemory", "importMemory"}

\* the step put exactly one message of the given role at the end of the store
AppendedOne(role) ==
  /\ Len(localMessages') = Len(localMessages) + 1
  /\ SubSeq(localMessages', 1, Len(localMessages)) = localMessages
  /\ LastMessage(localMessages').role = role

\* C19: each add operation puts exactly one message at the end of the store
\* and leaves the messages before it as they were, getMessagesForPrompt leaves
\* the store as it was, and a step that is not a replacement of the store as
\* a whole leaves the earlier store a prefix of the later one
C19_StoreAppendOnly ==
  [][ /\ memReturn'.op = "addUserMessage" => AppendedOne("user")
      /\ memReturn'.op = "addAssistantMessage" => AppendedOne("assistant")
      /\ memReturn'.op = "addToolResults" => AppendedOne("system")
      /\ memReturn'.op = "getMessagesForPrompt" => localMessages' = localMessages
      /\ ~StoreReplaced =>
           /\ Len(localMessages') >= Len(localMessages)
           /\ SubSeq(localMessages', 1, Len(localMessages)) = localMessages
    ]_vars

\* eviction gave a view shorter than a store that holds a message of each
\* role, and the store is whole
C19_Witness ==
  /\ ViewTaken
  /\ OverBudget
  /\ Len(memReturn.view) < Len(localMessages)
  /\ Len(localMessages) = MaxStore
  /\ {localMessages[i].role : i \in 1..Len(localMessages)}
       = {"user", "assistant", "system"}

(***************************************************************************)
(* Properties of the stream client.                                        *)
(***************************************************************************)
\* the argument text the first n chunks of the provider stream carry for the
\* streamed call id
RECURSIVE DeltaArguments(_)
DeltaArguments(tool_calls) ==
  IF tool_calls = <<>> THEN <<>>
  ELSE (IF Head(tool_calls).id = StreamCallId THEN Head(tool_calls).arguments
        ELSE <<>>) \o DeltaArguments(Tail(tool_calls))

RECURSIVE ArgumentsUpTo(_)
ArgumentsUpTo(n) ==
  IF n = 0 THEN <<>>
  ELSE ArgumentsUpTo(n - 1) \o DeltaArguments(events[n].tool_calls)

\* the whole argument text of the call
FullArguments == ArgumentsUpTo(Len(events))

\* the calls of the streamed id that a chunk carries
CallsOfId(chunk) ==
  SelectSeq(chunk.toolCalls, LAMBDA c : c.id = StreamCallId)

\* C20: every chunk carries at most one call of the streamed id; a chunk
\* that carries one carries it with the parse of the whole argument text as
\* params and was handed over when the whole argument text had arrived; and
\* when streamCompletion has returned the last chunk carries exactly one
C20_OneCallFromWholeArguments ==
  /\ \A k \in 1..Len(chunks) :
       /\ Len(CallsOfId(chunks[k])) <= 1
       /\ Len(CallsOfId(chunks[k])) = 1 =>
            /\ CallsOfId(chunks[k])[1].params = JsonParse(FullArguments)
            /\ ArgumentsUpTo(k) = FullArguments
  /\ streamReturn # NoReturn => Len(CallsOfId(chunks[Len(chunks)])) = 1

\* the part of C20 on the number of calls alone: no chunk carries two calls
\* of the streamed id
StreamedCallNotTwice ==
  \A k \in 1..Len(chunks) : Len(CallsOfId(chunks[k])) <= 1

\* no proper prefix of the whole argument text parses
NoPrefixParses ==
  \A n \in 1..(Len(FullArguments) - 1) :
    ~isValidJson(SubSeq(FullArguments, 1, n))

\* for an argument text of which no proper prefix parses, the statement of
\* C20 holds however the text is cut
OneCallWhenNoPrefixParses ==
  NoPrefixParses => C20_OneCallFromWholeArguments

\* the text of the chunks handed over, in order
RECURSIVE ChunkTexts(_)
ChunkTexts(cs) ==
  IF cs = <<>> THEN <<>> ELSE Head(cs).text \o ChunkTexts(Tail(cs))

\* the positions of the chunks handed over with isComplete = true
CompleteChunks == { k \in 1..Len(chunks) : chunks[k].isComplete }

\* C21: when streamCompletion has returned, exactly one chunk was handed over
\* with isComplete = true, it is the last one, and the text returned is the
\* text of all chunks in order
C21_OneFinalChunk ==
  streamReturn # NoReturn =>
    /\ CompleteChunks = {Len(chunks)}
    /\ Len(chunks) >= 1
    /\ streamReturn.fullContent = ChunkTexts(chunks)

\* the part of C21 on the text alone
ReturnedTextIsChunkTexts ==
  streamReturn # NoReturn => streamReturn.fullContent = ChunkTexts(chunks)

\* the part of C21 for the streams in which a finish reason comes
OneFinalChunkAfterFinish ==
  (streamReturn # NoReturn
   /\ \E k \in 1..Len(events) : events[k].finish_reason # "null")
    => C21_OneFinalChunk

(***************************************************************************)
(* Properties of the Logger.                                               *)
(***************************************************************************)
LogCalled == logCall' # logCall \/ logs' # logs

\* C26: a log call records an entry exactly when logging is enabled and the
\* level of the call is at or above the configured level, in the order
\* debug < info < warn < error; the entry goes to the end of the log, every
\* other call of log and getLogs leave the log as it is, and only clearLogs
\* removes entries, after which the log is empty.
C26_RecordedIffEnabledAndLevel ==
  [][ LogCalled =>
        /\ logCall'.op = "log" =>
             logs' =
               IF /\ isEnabled
                  /\ levelPriority(logCall'.level) >= levelPriority(logLevel)
               THEN Append(logs, LogEntry(logCall'.level, LogComponent,
                                          logCall'.message))
               ELSE logs
        /\ logCall'.op = "getLogs" => logs' = logs /\ logCall'.value = logs
        /\ logCall'.op = "clearLogs" => logs' = <<>>
        /\ logCall'.op # "clearLogs" =>
             /\ Len(logs') >= Len(logs)
             /\ SubSeq(logs', 1, Len(logs)) = logs
        /\ levelPriority("debug") < levelPriority("info")
        /\ levelPriority("info") < levelPriority("warn")
        /\ levelPriority("warn") < levelPriority("error") ]_vars

\* a logger at level warn holds a warn entry and then an error entry, and the
\* info call made last was not recorded
C26_Witness ==
  /\ isEnabled
  /\ logLevel = "warn"
  /\ Len(logs) = 2
  /\ logs[1].level = "warn"
  /\ logs[2].level = "error"
  /\ logCall = [op |-> "log", level |-> "info", message |-> "second"]

(***************************************************************************)
(* Properties of the mem0 forwarding.                                      *)
(***************************************************************************)
\* this step, mem0Client.add of the k-th operation in flight was rejected
ForwardRejected(k) ==
  /\ k \in 1..Len(forwarding)
  /\ forwarding' = RemoveAt(forwarding, k)
  /\ mem0Messages' = mem0Messages

\* this step, an add operation pushed its message
AddStarted == Len(localMessages') > Len(localMessages)

ResetCalled == resets' = resets + 1
RunStarted == runCalls' = runCalls + 1

StateResetEntry == LogEntry("info", "AgentLoop", "State reset")

\* the first segment of run(additionalMessages) on a freshly constructed loop
FreshStart(additionalMessages) ==
  /\ turnsWithoutToolCalls' = 0
  /\ allToolCalls' = <<>>
  /\ stream' = NoStream
  /\ isRunning' = TRUE
  /\ IF additionalMessages = <<>>
       THEN /\ localMessages' = <<>>
            /\ pendingAdditional' = <<>>
            /\ pc' = "llm"
            /\ prompt' = createPrompt(initialPrompt, <<>>)
       ELSE /\ localMessages' =
                 <<Message("user", Head(additionalMessages), <<>>, <<>>)>>
            /\ pendingAdditional' = Tail(additionalMessages)
            /\ pc' = "addUser"

\* C23: a reset made between runs leaves the store empty and the log without
\* any entry recorded before it (the log holds at most the line the reset
\* itself writes), and the loop is then where a freshly constructed loop is:
\* a run started on the store the reset left takes the first steps of a run on
\* a fresh loop.
C23_ResetLeavesFreshLoop ==
  [][ /\ (ResetCalled /\ ~isRunning) =>
           /\ localMessages' = <<>>
           /\ Len(logs') <= 1
           /\ \A k \in 1..Len(logs') : logs'[k] = StateResetEntry
           /\ isRunning' = FALSE
           /\ pc' = "idle"
           /\ pendingAdditional' = <<>>
           /\ maxTokens' = DefaultMaxTokens
      /\ (RunStarted /\ resets > 0 /\ localMessages = <<>>) =>
           \E additionalMessages \in AdditionalChoices :
             FreshStart(additionalMessages) ]_vars

\* a first run ended with an answer and a store that was not empty, the loop
\* was reset, and the second run is at its first model call with an empty
\* store and the prompt of a fresh loop; the warning the constructor logged
\* is gone
C23_Witness ==
  /\ resets = 1
  /\ runCalls = 2
  /\ llmCalls >= 2
  /\ pc = "llm"
  /\ localMessages = <<>>
  /\ prompt = createPrompt(initialPrompt, <<>>)
  /\ logs = <<>>

\* C24: a reset() call made while a run is in flight leaves the store and the
\* log as they are.
C24_ResetInFlightChangesNothing ==
  [][ (ResetCalled /\ isRunning) =>
        /\ localMessages' = localMessages
        /\ logs' = logs ]_vars

(***************************************************************************)
(* Properties of createPrompt.                                             *)
(***************************************************************************)
PromptMade == prompt # <<>>

RECURSIVE HistorySize(_)
HistorySize(messages) ==
  IF messages = <<>> THEN 0
  ELSE MessageSize(Head(messages)) + HistorySize(Tail(messages))

\* the messages of the prompt after the first
AfterSystem == Tail(prompt)

\* C25 as stated: the prompt is the synthesized system message followed by
\* the history messages in their order, or by one user message with the
\* initial prompt when the history is empty.
C25_SystemThenHistory ==
  PromptMade =>
    prompt = IF historyArg = <<>>
               THEN <<Message("system", SystemText, <<>>, <<>>),
                      Message("user", initialPrompt, <<>>, <<>>)>>
               ELSE <<Message("system", SystemText, <<>>, <<>>)>> \o historyArg

\* C25: the prompt is the synthesized system message followed, when the
\* history is empty, by one user message with the initial prompt, and
\* otherwise by the newest messages of the history in their order: all of
\* them when their sizes sum to at most the context limit, else the longest
\* newest run within the limit, and at least the newest message.
C25_SystemThenTrimmedHistory ==
  PromptMade =>
    /\ prompt[1] = Message("system", SystemText, <<>>, <<>>)
    /\ historyArg = <<>> =>
         AfterSystem = <<Message("user", initialPrompt, <<>>, <<>>)>>
    /\ historyArg # <<>> =>
         LET n == Len(historyArg)
             m == Len(AfterSystem)
         IN /\ m >= 1
            /\ m <= n
            /\ AfterSystem = SubSeq(historyArg, n - m + 1, n)
            /\ m > 1 => HistorySize(AfterSystem) <= maxContextSize
            /\ m < n =>
                 HistorySize(SubSeq(historyArg, n - m, n)) > maxContextSize
            /\ HistorySize(historyArg) <= maxContextSize => m = n

\* a history of three messages over the limit: the prompt holds the system
\* message and the two newest
C25_Witness ==
  /\ PromptMade
  /\ Len(historyArg) = 3
  /\ historyArg[1].content = T_giant
  /\ Len(prompt) = 3
  /\ prompt[2] = historyArg[2]
  /\ prompt[3] = historyArg[3]

(***************************************************************************)
(* Properties of the calls of a turn.                                      *)
(***************************************************************************)
\* the calls handed to executeTools
HandedCalls == [i \in 1..Len(batch) |-> batch[i].call]

IsAmong(calls, toolCall) == \E k \in 1..Len(calls) : calls[k] = toolCall

\* the different calls of a sequence, each once, in the order of their first
\* appearance
RECURSIVE DistinctFrom(_, _)
DistinctFrom(seen, calls) ==
  IF calls = <<>> THEN seen
  ELSE DistinctFrom(IF IsAmong(seen, Head(calls)) THEN seen
                    ELSE Append(seen, Head(calls)),
                    Tail(calls))

\* the calls surfaced by the stream of the turn
Surfaced == DistinctFrom(<<>>, stream.completedToolCalls)

\* C27: the calls handed to the executor in a turn are the different tool
\* calls the stream surfaced, each once, in the order of their first
\* appearance, with or without a call id.
C27_EveryDistinctCallExecuted ==
  pc = "tools" => HandedCalls = Surfaced

\* when the calls surfaced in a turn carry different ids (at most one of them
\* has none), the calls handed to the executor are those calls, each once, in
\* the order of their first appearance
DifferentIdsExecutedOnce ==
  (/\ pc = "tools"
   /\ \A i, j \in 1..Len(Surfaced) : i # j => Surfaced[i].id # Surfaced[j].id)
  => HandedCalls = Surfaced

\* the calls handed to the executor are the surfaced calls that are the first
\* of their id, in order
FirstOfItsId(k) == \A i \in 1..(k - 1) : Surfaced[i].id # Surfaced[k].id

RECURSIVE FirstsOfIds(_)
FirstsOfIds(k) ==
  IF k = 0 THEN <<>>
  ELSE IF FirstOfItsId(k) THEN Append(FirstsOfIds(k - 1), Surfaced[k])
  ELSE FirstsOfIds(k - 1)

HandedAreFirstsOfIds ==
  pc = "tools" => HandedCalls = FirstsOfIds(Len(Surfaced))

(***************************************************************************)
(* Properties of a turn with tool calls.                                   *)
(***************************************************************************)
\* this step, run called executeTools
ExecutorInvoked == batch = <<>> /\ batch' # <<>>

\* this step is one of the run (not a second run() call that was rejected)
RunStepped == raised' # AlreadyRunningError

\* this step, a system-role message was appended to the store
SystemMessageAppended ==
  /\ Len(localMessages') = Len(localMessages) + 1
  /\ LastMessage(localMessages').role = "system"

\* C28: in a turn with at least one tool call the assistant message is in the
\* store before the executor is invoked; the executor is invoked once, with
\* all the calls of the turn and in parallel mode; when it has returned, one
\* system-role message with one result per call, in the order of the calls,
\* is appended, and the next turn begins.  In a turn without a tool call the
\* executor is not invoked and no system message is appended.
C28_ToolTurnOrder ==
  [][ /\ ExecutorInvoked =>
           /\ pc = "addAssistant" /\ pc' = "tools"
           /\ Len(allToolCalls) >= 1
           /\ LastMessage(localMessages).role = "assistant"
           /\ LastMessage(localMessages).toolCalls = allToolCalls
           /\ [i \in 1..Len(batch') |-> batch'[i].call] = allToolCalls
           /\ parallel' = TRUE
           /\ localMessages' = localMessages
      /\ (pc = "tools" /\ pc' = "tools") =>
           /\ [i \in 1..Len(batch') |-> batch'[i].call] = allToolCalls
           /\ localMessages' = localMessages
      /\ (RunStepped /\ pc = "addAssistant" /\ Len(allToolCalls) >= 1) =>
           ExecutorInvoked
      /\ (pc = "tools" /\ pc' # "tools") =>
           /\ pc' = "addResults"
           /\ SystemMessageAppended
           /\ SubSeq(localMessages', 1, Len(localMessages)) = localMessages
           /\ LET results == LastMessage(localMessages').toolResults
              IN /\ Len(results) = Len(allToolCalls)
                 /\ \A i \in 1..Len(results) :
                      /\ results[i].toolCall = allToolCalls[i]
                      /\ results[i].result = batch[i].result
                      /\ results[i].error = batch[i].error
      /\ SystemMessageAppended => (pc = "tools" /\ pc' = "addResults")
      /\ (RunStepped /\ pc = "addResults") =>
           (pc' \in {"llm", "idle"} /\ ~ExecutorInvoked)
      /\ (RunStepped /\ pc = "addAssistant" /\ Len(allToolCalls) = 0) =>
           /\ ~ExecutorInvoked
           /\ batch' = <<>>
           /\ localMessages' = localMessages
           /\ pc' \in {"llm", "idle"} ]_vars

\* a turn with two calls of which the second returned first: the store ends
\* with the assistant message and the system message whose results are in
\* the order of the calls
C28_Witness ==
  /\ pc = "addResults"
  /\ Len(allToolCalls) = 2
  /\ Len(localMessages) >= 2
  /\ localMessages[Len(localMessages) - 1].role = "assistant"
  /\ localMessages[Len(localMessages) - 1].toolCalls = allToolCalls
  /\ LastMessage(localMessages).role = "system"
  /\ LastMessage(localMessages).toolResults[1].toolCall = allToolCalls[1]
  /\ LastMessage(localMessages).toolResults[1].error = NoError
  /\ LastMessage(localMessages).toolResults[2].toolCall = allToolCalls[2]
  /\ LastMessage(localMessages).toolResults[2].error # NoError

(***************************************************************************)
(* Properties of interleaved tool calls.                                   *)
(***************************************************************************)
\* text is a run of consecutive characters of whole
IsPartOf(text, whole) ==
  \E i \in 1..(Len(whole) + 1), j \in 0..Len(whole) :
    SubSeq(whole, i, j) = text

\* every fragment of the provider stream carries the id of its call
EveryFragmentHasId ==
  \A k \in 1..Len(events) :
    \A d \in 1..Len(events[k].tool_calls) :
      events[k].tool_calls[d].id # NoCallId

\* the arguments gathered for a pending call are made of the fragments of one
\* streamed call, and a completed call carries the name and the parsed
\* arguments of one streamed call
AssembledFromOneCall ==
  /\ \A p \in 1..Len(pendingToolCalls) :
       \E call \in StreamedCalls :
         IsPartOf(pendingToolCalls[p].arguments, call.arguments)
  /\ \A k \in 1..Len(chunks) :
       \A c \in 1..Len(chunks[k].toolCalls) :
         \E call \in StreamedCalls :
           /\ chunks[k].toolCalls[c].name = call.name
           /\ chunks[k].toolCalls[c].params = JsonParse(call.arguments)

\* when the whole stream was read, each streamed call was completed once
EachCompletedOnce ==
  (streamReturn # NoReturn /\ consumed = Len(events)) =>
    \A call \in StreamedCalls :
      Cardinality({ c \in 1..Len(stream.completedToolCalls) :
                      /\ stream.completedToolCalls[c].name = call.name
                      /\ stream.completedToolCalls[c].params =
                           JsonParse(call.arguments) }) = 1

\* C29: tool calls whose fragments interleave are assembled independently,
\* whether or not every fragment carries a call id: the arguments gathered
\* for a call never hold a fragment of another call, and each call is
\* completed from its own fragments.
C29_InterleavedCallsIndependent ==
  /\ AssembledFromOneCall
  /\ EachCompletedOnce

\* the statement of C29 holds for the streams in which every fragment
\* carries the id of its call
IndependentWhenEveryFragmentHasId ==
  EveryFragmentHasId => C29_InterleavedCallsIndependent

(***************************************************************************)
(* Properties of the pass at the finish reason tool_calls.                 *)
(***************************************************************************)
\* this step, the chunk with the finish reason tool_calls was processed
FinishPass ==
  /\ consumed' = consumed + 1
  /\ events[consumed'].finish_reason = "tool_calls"

\* the calls completed and the warnings logged by this step
NewlyCompleted ==
  SubSeq(stream'.completedToolCalls, Len(stream.completedToolCalls) + 1,
         Len(stream'.completedToolCalls))
NewWarnings == SubSeq(logs', Len(logs) + 1, Len(logs'))

\* the pending call was surfaced with the parse of its text or of its
\* repaired text
SurfacedAtFinish(pendingCall) ==
  \E c \in 1..Len(NewlyCompleted) :
    /\ NewlyCompleted[c].id = pendingCall.id
    /\ NewlyCompleted[c].name = pendingCall.name
    /\ NewlyCompleted[c].params =
         JsonParse(IF isValidJson(pendingCall.arguments)
                     THEN pendingCall.arguments
                     ELSE FixJson(pendingCall.arguments))

WarnedAtFinish(pendingCall) ==
  \E w \in 1..Len(NewWarnings) :
    /\ NewWarnings[w].level = "warn"
    /\ NewWarnings[w].message =
         <<"Could not complete pending tool call:", pendingCall.name>>

\* C30: at the finish reason tool_calls every call still pending is either
\* surfaced as completed, with the parse of its text or of its text after the
\* one repair, or dropped with a warning in the log; every call surfaced by
\* the pass is one of the pending calls, and no call stays pending.
C30_PendingSurfacedOrWarned ==
  [][ FinishPass =>
        /\ \A p \in 1..Len(pendingToolCalls) :
             SurfacedAtFinish(pendingToolCalls[p])
             \/ WarnedAtFinish(pendingToolCalls[p])
        /\ Len(NewlyCompleted) + Len(NewWarnings) = Len(pendingToolCalls)
        /\ pendingToolCalls' = <<>> ]_vars

\* the statement of C30 holds for the pending calls that have a name and
\* arguments; the others are dropped without a log line
NamedPendingSurfacedOrWarned ==
  [][ FinishPass =>
        /\ \A p \in 1..Len(pendingToolCalls) :
             IF /\ pendingToolCalls[p].name # ""
                /\ pendingToolCalls[p].arguments # <<>>
               THEN SurfacedAtFinish(pendingToolCalls[p])
                    \/ WarnedAtFinish(pendingToolCalls[p])
               ELSE ~SurfacedAtFinish(pendingToolCalls[p])
        /\ Len(NewlyCompleted) + Len(NewWarnings) =
             Cardinality({ p \in 1..Len(pendingToolCalls) :
                             /\ pendingToolCalls[p].name # ""
                             /\ pendingToolCalls[p].arguments # <<>> })
        /\ pendingToolCalls' = <<>> ]_vars

(***************************************************************************)
(* The cap on turns without tool calls.                                    *)
(***************************************************************************)
\* the turns of the run that the branch after addAssistantMessage has counted
CountedTurns ==
  IF pc = "addAssistant" THEN SubSeq(turnLog, 1, Len(turnLog) - 1)
  ELSE turnLog

\* the number of turns without a tool call at the end of log
PlainRun(log) ==
  CHOOSE n \in 0..Len(log) :
    /\ \A k \in (Len(log) - n + 1)..Len(log) : log[k].toolCalls = 0
    /\ n = Len(log) \/ log[Len(log) - n].toolCalls > 0

\* the run has returned an answer that the final-answer test rejects
EndedByCap ==
  /\ pc = "idle"
  /\ outcome.kind = "answer"
  /\ ~isLikelyFinalAnswer(outcome.finalAnswer)

\* C31: the counter of turns without tool calls is the number of consecutive
\* turns without a tool call at the end of the run so far (a turn with a tool
\* call sets it back to 0), it never exceeds MAX_TURNS_WITHOUT_TOOLS, the run
\* has ended when it reaches that cap, and a run ended by the cap has
\* MAX_TURNS_WITHOUT_TOOLS consecutive turns without a tool call at its end
C31_CapCountsConsecutivePlainTurns ==
  /\ turnsWithoutToolCalls = PlainRun(CountedTurns)
  /\ turnsWithoutToolCalls <= MAX_TURNS_WITHOUT_TOOLS
  /\ turnsWithoutToolCalls = MAX_TURNS_WITHOUT_TOOLS => pc = "idle"
  /\ EndedByCap =>
       /\ Len(turnLog) >= MAX_TURNS_WITHOUT_TOOLS
       /\ \A k \in (Len(turnLog) - MAX_TURNS_WITHOUT_TOOLS + 1)..Len(turnLog) :
            turnLog[k].toolCalls = 0

\* a run ended by the cap after a turn with a tool call and three turns
\* without one
C31_Witness ==
  /\ EndedByCap
  /\ Len(turnLog) = MAX_TURNS_WITHOUT_TOOLS + 1
  /\ turnLog[1].toolCalls > 0
  /\ turnsWithoutToolCalls = MAX_TURNS_WITHOUT_TOOLS

\* a turn without a tool call, a turn with one, then a turn without one: the
\* run goes on and the counter is 1
PlainTurnsApartDoNotAddUp ==
  /\ Len(turnLog) = 3
  /\ turnLog[1].toolCalls = 0
  /\ turnLog[2].toolCalls > 0
  /\ turnLog[3].toolCalls = 0
  /\ pc = "llm"
  /\ turnsWithoutToolCalls = 1

(***************************************************************************)
(* The answer of run.                                                      *)
(***************************************************************************)
LastTurn == turnLog[Len(turnLog)]

Answered == pc = "idle" /\ outcome.kind = "answer"

\* C32: run returns only after a turn without a tool call; finalAnswer is the
\* full text of that turn, the last model call of the run, and the content of
\* the assistant message appended last to the store.  After a turn with a
\* tool call the run is in flight until the tools have run and their results
\* are stored, whatever the text of the turn: it has returned nothing.
C32_AnswerIsTextOfLastPlainTurn ==
  /\ Answered =>
       /\ turnLog # <<>>
       /\ LastTurn.toolCalls = 0
       /\ outcome.finalAnswer = LastTurn.content
       /\ localMessages # <<>>
       /\ LastMessage(localMessages).role = "assistant"
       /\ LastMessage(localMessages).content = outcome.finalAnswer
  /\ (turnLog # <<>> /\ LastTurn.toolCalls > 0) =>
       /\ outcome.kind # "answer"
       /\ pc \in {"addAssistant", "tools", "addResults"} =>
            isRunning /\ outcome = NoOutcome

\* a run returned the text of its second turn, after a first turn that gave
\* a tool call and a text the final-answer test accepts
C32_Witness ==
  /\ Answered
  /\ Len(turnLog) = 2
  /\ turnLog[1].toolCalls > 0
  /\ isLikelyFinalAnswer(turnLog[1].content)
  /\ turnLog[2].toolCalls = 0
  /\ outcome.finalAnswer = T_final

(***************************************************************************)
(* Runs of a loop constructed with a small token budget                    *)
(* (config.memory.maxTokens), so that the store of a run goes over it.     *)
(***************************************************************************)
\* the budgets the loop is constructed with
LoopBudgets == {120, 250}

\* the additionalMessages arguments tried on run
LongAdditionalChoices == { <<>>, <<T_huge>>, <<T_huge, T_huge>> }

InitBudget ==
  /\ maxTokens \in LoopBudgets
  /\ isRunning = FALSE
  /\ localMessages = <<>>
  /\ pc = "idle"
  /\ pendingAdditional = <<>>
  /\ turnsWithoutToolCalls = 0
  /\ allToolCalls = <<>>
  /\ stream = NoStream
  /\ prompt = <<>>
  /\ batch = <<>>
  /\ parallel = TRUE
  /\ retries = DefaultRetries
  /\ outcome = NoOutcome
  /\ raised = NoError
  /\ runCalls = 0
  /\ llmCalls = 0
  /\ resets = 0
  /\ turnLog = <<>>
  /\ tpc = "idle"
  /\ toolReturn = NoReturn
  /\ settled = <<>>
  /\ toolCallsArg = <<>>
  /\ memReturn = NoReturn
  /\ logs = <<>>
  /\ isEnabled = FALSE
  /\ logLevel = "info"
  /\ logCall = NoReturn
  /\ historyArg = <<>>
  /\ mem0Client = FALSE
  /\ forwarding = <<>>
  /\ mem0Messages = <<>>
  /\ events = <<>>
  /\ consumed = 0
  /\ pendingToolCalls = <<>>
  /\ chunks = <<>>
  /\ streamReturn = NoReturn

NextBudget ==
  \/ \E additionalMessages \in LongAdditionalChoices :
       RunAccepted(additionalMessages)
  \/ UserMessageAdded
  \/ \E text \in ModelTexts : StreamText(text)
  \/ StreamToolCall(1)
  \/ StreamEnd
  \/ AssistantMessageAdded
  \/ \E i \in 1..Len(batch) : ToolSettle(i, R_four)
  \/ ToolsReturned
  \/ ToolResultsAdded

SpecBudget == InitBudget /\ [][NextBudget]_vars

(***************************************************************************)
(* The history returned by run.                                            *)
(***************************************************************************)
\* C33: the history returned by run is the store, every message in append
\* order, whatever the estimate of the store against the budget
C33_HistoryIsWholeStore ==
  Answered => outcome.history = localMessages

\* the history returned by run is the store when the estimate of the store is
\* within the budget
HistoryIsStoreWithinBudget ==
  (Answered /\ ~OverBudget) => outcome.history = localMessages

\* the history returned by run is the view of the store
HistoryIsViewOfStore ==
  Answered => outcome.history = SlidingWindowApply(localMessages, maxTokens)

(***************************************************************************)
(* The prompt of a turn.                                                   *)
(***************************************************************************)
\* the prompt holds a user message with the initial prompt
HasInitialPrompt(messages) ==
  \E k \in 1..Len(messages) :
    messages[k].role = "user" /\ messages[k].content = initialPrompt

\* C34: in the first run of a loop, while the store is within the budget, the
\* prompt of every model call holds the initial prompt, with and without
\* additional messages
C34_InitialPromptInEveryPrompt ==
  (runCalls = 1 /\ pc = "llm" /\ ~OverBudget) => HasInitialPrompt(prompt)

\* the prompt of a model call holds the initial prompt exactly when the view
\* of the store is empty
InitialPromptOnlyForEmptyView ==
  pc = "llm" =>
    (HasInitialPrompt(prompt)
       <=> SlidingWindowApply(localMessages, maxTokens) = <<>>)

\* the second model call of a first run without additional messages
SecondTurnWithoutAdditional ==
  /\ runCalls = 1
  /\ NoAdditionalGiven
  /\ pc = "llm"
  /\ Len(turnLog) = 1
  /\ ~HasInitialPrompt(prompt)

(***************************************************************************)
(* The trimming of the history by the PromptManager.                       *)
(***************************************************************************)
\* s is the end of t: its last Len(s) elements, in their order
IsSuffix(s, t) ==
  /\ Len(s) <= Len(t)
  /\ s = SubSeq(t, Len(t) - Len(s) + 1, Len(t))

\* C40: the history part of a prompt made from a history that is not empty
\* is a run of newest messages of that history in their order, and it holds
\* the newest message whatever its size
C40_TrimKeepsNewestSuffix ==
  (PromptMade /\ historyArg # <<>>) =>
    /\ IsSuffix(AfterSystem, historyArg)
    /\ AfterSystem # <<>>
    /\ LastMessage(AfterSystem) = LastMessage(historyArg)

\* a history whose newest message alone is over the context limit: the prompt
\* holds that message and not the older one
C40_Witness ==
  /\ PromptMade
  /\ Len(historyArg) = 2
  /\ MessageSize(historyArg[2]) > maxContextSize
  /\ AfterSystem = <<historyArg[2]>>

\* message is one of messages
Holds(messages, message) ==
  \E k \in 1..Len(messages) : messages[k] = message

\* a model call is under way on a store that is not empty
TurnOnStore == pc = "llm" /\ localMessages # <<>>

NewestPasses ==
  LET newest == LastMessage(localMessages)
      pinned == SystemMessages(localMessages)
  IN \/ ~OverBudget
     \/ newest.role = "system"
     \/ /\ estimateMessagesTokens(pinned) + estimateMessageTokens(newest)
             <= maxTokens - SafetyBuffer
        /\ \/ pinned = <<>>
           \/ HistorySize(pinned) + MessageSize(newest) <= maxContextSize

NewestUserMessageEvicted ==
  /\ TurnOnStore
  /\ LastMessage(localMessages).role = "user"
  /\ ~Holds(prompt, LastMessage(localMessages))

(***************************************************************************)
(* Runs after the first on the same instance.                              *)
(***************************************************************************)
\* the step is a step of a run after the first
InLaterRun == runCalls' >= 2

\* the step is the acceptance of a run() call
RunCallAccepted == runCalls' = runCalls + 1

\* C36: in a run after the first, without a reset, every step leaves the
\* messages of the store in place and appends at most one message; the
\* accepted call appends nothing when it has no additional message and
\* otherwise appends the first of them as a user message, the steps after it
\* append the others one by one in the order given, nothing is appended
\* after the last of them before the loop is entered, and no appended message
\* is the initial prompt
C36_LaterRunContinuesStore ==
  [][ InLaterRun =>
        /\ Len(localMessages') \in {Len(localMessages), Len(localMessages) + 1}
        /\ SubSeq(localMessages', 1, Len(localMessages)) = localMessages
        /\ RunCallAccepted =>
             \/ /\ localMessages' = localMessages
                /\ pendingAdditional' = <<>>
             \/ /\ AppendedOne("user")
                /\ <<LastMessage(localMessages').content>> \o pendingAdditional'
                     \in AdditionalChoices
                /\ pc' = "addUser"
        /\ (pc = "addUser" /\ RunStepped) =>
             IF pendingAdditional # <<>>
               THEN /\ localMessages' =
                         Append(localMessages,
                                Message("user", Head(pendingAdditional),
                                        <<>>, <<>>))
                    /\ pendingAdditional' = Tail(pendingAdditional)
               ELSE localMessages' = localMessages
        /\ Len(localMessages') > Len(localMessages) =>
             LastMessage(localMessages').content # initialPrompt
    ]_vars

\* the first model call of a second run: the store holds the messages of the
\* first run, an answer at their end, then the two additional messages of
\* the second run, and the initial prompt nowhere
C36_Witness ==
  /\ runCalls = 2
  /\ pc = "llm"
  /\ turnLog = <<>>
  /\ Len(localMessages) >= 4
  /\ localMessages[Len(localMessages) - 2].role = "assistant"
  /\ localMessages[Len(localMessages) - 1] = Message("user", A_first, <<>>, <<>>)
  /\ LastMessage(localMessages) = Message("user", A_second, <<>>, <<>>)
  /\ ~HasInitialPrompt(localMessages)

(***************************************************************************)
(* The running mark.                                                       *)
(***************************************************************************)
\* the last run() call has ended, by an answer or by an error
RunEnded == outcome.kind \in {"answer", "error"}

\* C37: the loop is marked running exactly while a run is in flight: when a
\* run has ended, by an answer or by an error, the mark is off and the test
\* of the next run() call passes; right after a rejected run() call the run
\* in flight is still marked, so the test of the next call fails as well
C37_MarkedWhileInFlight ==
  /\ isRunning <=> pc # "idle"
  /\ RunEnded => (pc = "idle" /\ ~isRunning /\ ~AlreadyRunning)
  /\ raised = AlreadyRunningError =>
       (isRunning /\ AlreadyRunning /\ ~RunEnded)

\* a second run was accepted after the first ended, and a run() call made
\* while its tools execute was rejected
C37_Witness ==
  /\ runCalls = 2
  /\ raised = AlreadyRunningError
  /\ pc = "tools"
  /\ isRunning

\* a run that ended by an error: the mark is off
EndedByErrorUnmarked ==
  /\ outcome.kind = "error"
  /\ pc = "idle"
  /\ ~isRunning

(***************************************************************************)
(* SlidingWindowStrategy.apply on a store and a budget taken from bounded  *)
(* sets, through getMessagesForPrompt.                                     *)
(***************************************************************************)
\* the longest store tried
MaxWindow == 3

\* the budgets tried: around the estimates of the stores, so that running
\* totals fall below, on and above the budget less the buffer
WindowBudgets == 105..116

WindowMessages ==
  { Message("user", T_ask, <<>>, <<>>),
    Message("user", T_huge, <<>>, <<>>),
    Message("assistant", T_final, <<CallA>>, <<>>),
    Message("system", ToolResultsText, <<>>,
            <<ToolResult(CallA, R_four, NoError)>>) }

WindowStores == UNION { [1..n -> WindowMessages] : n \in 0..MaxWindow }

InitWindow ==
  /\ maxTokens \in WindowBudgets
  /\ localMessages \in WindowStores
  /\ isRunning = FALSE
  /\ pc = "idle"
  /\ pendingAdditional = <<>>
  /\ turnsWithoutToolCalls = 0
  /\ allToolCalls = <<>>
  /\ stream = NoStream
  /\ prompt = <<>>
  /\ batch = <<>>
  /\ parallel = TRUE
  /\ retries = DefaultRetries
  /\ outcome = NoOutcome
  /\ raised = NoError
  /\ runCalls = 0
  /\ llmCalls = 0
  /\ resets = 0
  /\ turnLog = <<>>
  /\ tpc = "idle"
  /\ toolReturn = NoReturn
  /\ settled = <<>>
  /\ toolCallsArg = <<>>
  /\ memReturn = NoReturn
  /\ logs = <<>>
  /\ isEnabled = FALSE
  /\ logLevel = "info"
  /\ logCall = NoReturn
  /\ historyArg = <<>>
  /\ mem0Client = FALSE
  /\ forwarding = <<>>
  /\ mem0Messages = <<>>
  /\ events = <<>>
  /\ consumed = 0
  /\ pendingToolCalls = <<>>
  /\ chunks = <<>>
  /\ streamReturn = NoReturn

NextWindow == CallGetMessagesForPrompt

SpecWindow == InitWindow /\ [][NextWindow]_vars

(***************************************************************************)
(* The walk of the eviction over the non-system messages.                  *)
(***************************************************************************)
\* the number of non-system messages the view kept
KeptCount == Len(NonSystemMessages(memReturn.view))

\* the running total of apply after it added the i newest non-system
\* messages of the store to the system messages
RunningTotal(i) ==
  LET others == NonSystemMessages(localMessages)
      n == Len(others)
  IN estimateMessagesTokens(SystemMessages(localMessages))
     + SumSeq([j \in 1..i |-> estimateMessageTokens(others[n - j + 1])])

\* eviction ran and the view was returned
Evicted == ViewTaken /\ OverBudget

\* C38 as stated: when eviction runs, the running total after each kept
\* non-system message is strictly below the budget less the buffer
C38_KeptStrictlyBelowMargin ==
  Evicted =>
    \A i \in 1..KeptCount : RunningTotal(i) < maxTokens - SafetyBuffer

\* C38: when eviction runs, the running total after each kept non-system
\* message is at most the budget less the buffer, and the newest message
\* that is not kept would take it above that
C38_KeptAtMostMargin ==
  Evicted =>
    /\ \A i \in 1..KeptCount : RunningTotal(i) <= maxTokens - SafetyBuffer
    /\ KeptCount < Len(NonSystemMessages(localMessages)) =>
         RunningTotal(KeptCount + 1) > maxTokens - SafetyBuffer

\* eviction kept a non-system message that took the running total to exactly
\* the budget less the buffer
C38_Witness ==
  /\ Evicted
  /\ KeptCount >= 1
  /\ RunningTotal(KeptCount) = maxTokens - SafetyBuffer

\* C39: when eviction runs, the non-system messages of the view are the
\* newest non-system messages of the store, a run without gaps that ends with
\* the newest, in the order of the store
C39_KeptAreNewestSuffix ==
  Evicted =>
    IsSuffix(NonSystemMessages(memReturn.view),
             NonSystemMessages(localMessages))

\* eviction kept the newest non-system message, stopped at the one before
\* it, and so dropped an older one that would have fitted next to what was
\* kept
C39_Witness ==
  LET others == NonSystemMessages(localMessages)
  IN /\ Evicted
     /\ Len(others) = 3
     /\ NonSystemMessages(memReturn.view) = <<others[3]>>
     /\ RunningTotal(1) + estimateMessageTokens(others[2])
          > maxTokens - SafetyBuffer
     /\ RunningTotal(1) + estimateMessageTokens(others[1])
          <= maxTokens - SafetyBuffer

====
